---- MODULE Spec2Model ----
(***************************************************************************)
(* Model of the image-analysis core of autotest_ui/testsystem:             *)
(* cv_utils.py (alignment, diff mask, element detection, de-duplication,   *)
(* per-element diff analysis) and the two tasks of tasks.py that drive it. *)
(*                                                                         *)
(* Numbers.  Python floats are modelled by exact integers:                 *)
(*   - a relative coordinate r of an image of width W is stored as the     *)
(*     integer r * W * Sub (Sub sub-pixel units per pixel), so that        *)
(*     _bbox_abs (r * W) is the stored number read in sub-pixel units;     *)
(*   - ratios and thresholds are compared by cross-multiplication, in      *)
(*     hundredths (thresholds) or thousandths (confidences);               *)
(*   - int(f) of a non-negative float is integer division.                 *)
(* IEEE rounding of the round trip r * W / W is not modelled.              *)
(***************************************************************************)
EXTENDS Integers, Sequences, FiniteSets, TLC

VARIABLES
    dd_pc,       \* position of the de-duplication driver
    dd_input,    \* the list of elements handed to the merge step
    dd_once,     \* the merge step applied to dd_input
    dd_twice,    \* the merge step applied to dd_once
    dd_deduped,  \* _remove_duplicate_elements applied to dd_input
    dd_merged,   \* _merge_overlapping_elements applied to dd_input
    da_pc,       \* position of the caller of analyze_elements_diff
    diff_mask,   \* the diff_mask argument: None, or [w, h, nz] with nz the
                 \* set of nonzero (255) pixels <<x, y>>
    tc_elements, \* testcase.elements.all(): the stored UIElement rows
    da_args,     \* the threshold arguments of the call
    da_result,   \* the dict analyze_elements_diff returns
    det_pc,      \* position of the caller of detect_elements_improved
    det_img,     \* the image: its shape and what the OpenCV passes find in it
    det_opts,    \* the options use_yolo and fallback_to_heuristic
    det_yolo,    \* the learned detector: availability and its two predictions
    det_result,  \* what detect_elements_improved returns, or that it raised
    cm_pc,       \* position of the caller of the comparison functions
    cm_reference, \* the reference image
    cm_actual,   \* the candidate image
    cm_files,    \* whether each screenshot is stored, on disk and decodable
    cm_tolerance, \* diff_threshold (CV_DIFF_TOLERANCE), in hundredths
    cm_cv,       \* what the OpenCV calls of align_image do on these images
    cm_align,    \* what align_image returns, or that it raised
    cm_result,   \* what the comparison returns, or that it raised
    cm_run,      \* the Run row, with the defects created for it
    gt_pc,       \* position of the caller of generate_test_from_screenshot
    gt_testcase, \* the TestCase row with its screenshot and its UIElement rows
    gt_detected, \* what detect_elements_improved returns for the screenshot
    gt_look,     \* for each detected box, what the two classifiers make of it
    gt_ml,       \* the learned classifier: whether a model file is there
    gt_result,   \* what the generation returns, or that it raised
    mh_pc,       \* for each thread, its position inside load_yolo_model
    mh_files,    \* whether the two model files are there and load
    mh_model,    \* the module global _yolo_model
    mh_new,      \* for each thread, the model it has just built from the file
    mh_got,      \* for each thread, what its last call returned
    mh_loads,    \* how many times each model was loaded from disk
    mh_calls,    \* for each thread, the calls it still makes
    li_pc,       \* position of the caller of load_image
    li_path,     \* the path argument
    li_decoders, \* what cv2.imread and Pillow make of the file at that path
    li_result,   \* what load_image returns, or that it raised
    gf_pc,       \* position of the caller of _grid_fallback_detection
    gf_gray,     \* the grey image: its shape and the std of each grid cell
    gf_result,   \* the list _grid_fallback_detection returns
    ms_pc,       \* position inside _merge_overlapping_elements
    ms_elements, \* the elements argument
    ms_merged,   \* the local list merged
    ms_changed,  \* the local flag changed
    ms_scan,     \* the locals of the scan under way, or None
    ms_scans,    \* how many times the body of "while changed" has run
    ms_merging,  \* how many of those runs merged a pair
    rq_pc,       \* position of the request handler
    rq_handler,  \* the handler: create_run, compare_run or RunViewSet.compare
    rq_env,      \* the settings, the broker, the backend, what the task does
    rq_queue,    \* the task in the asynchronous queue: none, queued or done
    rq_status,   \* run.status in the database
    rq_written,  \* the terminal status the task wrote last, or "none"
    rq_runs,     \* how often the task body ran in the worker and in the request
    rq_mode,     \* the mode run_task_with_fallback returned, or that it raised
    an_pc,       \* for each of the two invocations, its position in the task
    an_found,    \* how many elements detection returns for the screenshot
    an_rows,     \* the UIElement rows of the test case in the database
    an_status,   \* testcase.status in the database
    an_saved     \* for each invocation, the local counter saved

ddVars == <<dd_pc, dd_input, dd_once, dd_twice, dd_deduped, dd_merged>>
daVars == <<da_pc, diff_mask, tc_elements, da_args, da_result>>
detVars == <<det_pc, det_img, det_opts, det_yolo, det_result>>
cmVars == <<cm_pc, cm_reference, cm_actual, cm_files, cm_tolerance, cm_cv,
           cm_align, cm_result, cm_run>>
gtVars == <<gt_pc, gt_testcase, gt_detected, gt_look, gt_ml, gt_result>>
mhVars == <<mh_pc, mh_files, mh_model, mh_new, mh_got, mh_loads, mh_calls>>
liVars == <<li_pc, li_path, li_decoders, li_result>>
gfVars == <<gf_pc, gf_gray, gf_result>>
msVars == <<ms_pc, ms_elements, ms_merged, ms_changed, ms_scan, ms_scans, ms_merging>>
rqVars == <<rq_pc, rq_handler, rq_env, rq_queue,
    rq_status, rq_written, rq_runs, rq_mode>>
anVars == <<an_pc, an_found, an_rows, an_status, an_saved>>

vars == <<dd_pc, dd_input, dd_once, dd_twice, dd_deduped, dd_merged,
          da_pc, diff_mask, tc_elements, da_args, da_result,
          det_pc, det_img, det_opts, det_yolo, det_result,
          cm_pc, cm_reference, cm_actual, cm_files, cm_tolerance, cm_cv,
          cm_align, cm_result, cm_run,
          gt_pc, gt_testcase, gt_detected, gt_look, gt_ml, gt_result,
          mh_pc, mh_files, mh_model, mh_new, mh_got, mh_loads, mh_calls,
          li_pc, li_path, li_decoders, li_result,
          gf_pc, gf_gray, gf_result,
          ms_pc, ms_elements, ms_merged, ms_changed, ms_scan, ms_scans, ms_merging,
          rq_pc, rq_handler, rq_env, rq_queue, rq_status, rq_written, rq_runs, rq_mode,
          an_pc, an_found, an_rows, an_status, an_saved>>

\* Python's None, where a record is expected.
None == [none |-> TRUE]

\* The variables of an operation the specification at hand does not run.
DedupeIdle ==
    /\ dd_pc = "idle"
    /\ dd_input = <<>>
    /\ dd_once = <<>>
    /\ dd_twice = <<>>
    /\ dd_deduped = <<>>
    /\ dd_merged = <<>>

DiffIdle ==
    /\ da_pc = "idle"
    /\ diff_mask = None
    /\ tc_elements = <<>>
    /\ da_args = None
    /\ da_result = None

DetectIdle ==
    /\ det_pc = "idle"
    /\ det_img = None
    /\ det_opts = None
    /\ det_yolo = None
    /\ det_result = None

CompareIdle ==
    /\ cm_pc = "idle"
    /\ cm_reference = None
    /\ cm_actual = None
    /\ cm_files = None
    /\ cm_tolerance = 0
    /\ cm_cv = None
    /\ cm_align = None
    /\ cm_result = None
    /\ cm_run = None

GenerateIdle ==
    /\ gt_pc = "idle"
    /\ gt_testcase = None
    /\ gt_detected = <<>>
    /\ gt_look = <<>>
    /\ gt_ml = None
    /\ gt_result = None

HandlesIdle ==
    /\ mh_pc = None
    /\ mh_files = None
    /\ mh_model = None
    /\ mh_new = None
    /\ mh_got = None
    /\ mh_loads = None
    /\ mh_calls = None

LoadIdle ==
    /\ li_pc = "idle"
    /\ li_path = None
    /\ li_decoders = None
    /\ li_result = None

GridIdle ==
    /\ gf_pc = "idle"
    /\ gf_gray = None
    /\ gf_result = None

MergeIdle ==
    /\ ms_pc = "idle"
    /\ ms_elements = <<>>
    /\ ms_merged = <<>>
    /\ ms_changed = FALSE
    /\ ms_scan = None
    /\ ms_scans = 0
    /\ ms_merging = 0

RequestIdle ==
    /\ rq_pc = "idle"
    /\ rq_handler = None
    /\ rq_env = None
    /\ rq_queue = "none"
    /\ rq_status = None
    /\ rq_written = None
    /\ rq_runs = None
    /\ rq_mode = None

AnalysesIdle ==
    /\ an_pc = None
    /\ an_found = 0
    /\ an_rows = {}
    /\ an_status = None
    /\ an_saved = None

Max(a, b) == IF a >= b THEN a ELSE b
Min(a, b) == IF a <= b THEN a ELSE b

\* Sub-pixel units per pixel: the common denominator of the fractions 1/3,
\* 2/3, 0.15, 0.1 and 0.3 that position the synthetic boxes of the grid
\* fallback, so that every box of the model has integer coordinates.
Sub == 60

\* One square pixel, the "1" of max(union_area, 1), in square sub-pixel units.
PX2 == Sub * Sub

\* The key 'class_name' is absent from the element's dict.
NoClass == "<absent>"

(***************************************************************************)
(* Elements.  An element is the dict {'bbox', 'area', 'confidence'} with   *)
(* the optional key 'class_name'.  bbox fields are in sub-pixel units of   *)
(* the image the element belongs to, confidence in thousandths.            *)
(***************************************************************************)
Element(x, y, w, h, area, conf, cls) ==
    [bbox |-> [x |-> x, y |-> y, w |-> w, h |-> h],
     area |-> area, confidence |-> conf, class_name |-> cls]

\* _bbox_abs: (x1, y1, x2, y2) of a relative bbox.
bbox_abs(bbox) ==
    <<bbox.x, bbox.y, bbox.x + bbox.w, bbox.y + bbox.h>>

RectArea(r) == (r[3] - r[1]) * (r[4] - r[2])

\* The intersection rectangle of two absolute rectangles.
Intersection(a, b) ==
    <<Max(a[1], b[1]), Max(a[2], b[2]), Min(a[3], b[3]), Min(a[4], b[4])>>

\* intersection_x2 > intersection_x1 and intersection_y2 > intersection_y1
Overlaps(a, b) ==
    LET i == Intersection(a, b) IN i[3] > i[1] /\ i[4] > i[2]

\* iou = intersection_area / max(union_area, 1), compared with pct / 100.
\* iou stays 0.0 when the rectangles do not overlap.
IoUAbove(a, b, pct) ==
    /\ Overlaps(a, b)
    /\ LET inter == RectArea(Intersection(a, b))
           union_area == RectArea(a) + RectArea(b) - inter
       IN  inter * 100 > pct * Max(union_area, PX2)

\* containment = intersection_area / max(min(area_base, area_other), 1)
ContainmentAbove(a, b, pct) ==
    /\ Overlaps(a, b)
    /\ LET inter == RectArea(Intersection(a, b))
       IN  inter * 100 > pct * Max(Min(RectArea(a), RectArea(b)), PX2)

\* Thresholds of the two passes, in hundredths.
DuplicateIoU == 35
MergeIoU == 60
MergeContainment == 80

(***************************************************************************)
(* _remove_duplicate_elements                                              *)
(***************************************************************************)
\* sorted(elements, key=confidence, reverse=True): a stable insertion sort,
\* equal confidences keep their input order.
RECURSIVE InsertByConfidence(_, _)
InsertByConfidence(sorted, elem) ==
    IF sorted = <<>> THEN <<elem>>
    ELSE IF Head(sorted).confidence >= elem.confidence
         THEN <<Head(sorted)>> \o InsertByConfidence(Tail(sorted), elem)
         ELSE <<elem>> \o sorted

RECURSIVE SortByConfidenceFrom(_, _, _)
SortByConfidenceFrom(elements, i, acc) ==
    IF i > Len(elements) THEN acc
    ELSE SortByConfidenceFrom(elements, i + 1, InsertByConfidence(acc, elements[i]))

SortByConfidence(elements) == SortByConfidenceFrom(elements, 1, <<>>)

\* is_duplicate: some already accepted element has IoU > 0.35 with elem.
IsDuplicate(elem, filtered) ==
    \E k \in 1..Len(filtered) :
        IoUAbove(bbox_abs(elem.bbox), bbox_abs(filtered[k].bbox), DuplicateIoU)

RECURSIVE FilterDuplicates(_, _, _)
FilterDuplicates(sorted_elements, i, filtered) ==
    IF i > Len(sorted_elements) THEN filtered
    ELSE FilterDuplicates(sorted_elements, i + 1,
            IF IsDuplicate(sorted_elements[i], filtered) THEN filtered
            ELSE Append(filtered, sorted_elements[i]))

\* Mutant: the filter runs over the list in its input order.
remove_duplicate_elements_unsorted(elements) ==
    IF elements = <<>> THEN <<>>
    ELSE FilterDuplicates(elements, 1, <<>>)

remove_duplicate_elements(elements) ==
    IF elements = <<>> THEN <<>>
    ELSE FilterDuplicates(SortByConfidence(elements), 1, <<>>)

(***************************************************************************)
(* _merge_overlapping_elements                                             *)
(***************************************************************************)
\* if iou > 0.6 or containment > 0.8
ShouldMerge(a, b) ==
    IoUAbove(a, b, MergeIoU) \/ ContainmentAbove(a, b, MergeContainment)

\* The element that replaces base when other is merged into it: the
\* bounding union, its pixel area and the larger confidence.  The new dict
\* has no 'class_name'.
MergedElement(base, other) ==
    LET a == bbox_abs(base.bbox)
        b == bbox_abs(other.bbox)
        nx1 == Min(a[1], b[1])
        ny1 == Min(a[2], b[2])
        nx2 == Max(a[3], b[3])
        ny2 == Max(a[4], b[4])
    IN  Element(nx1, ny1, nx2 - nx1, ny2 - ny1,
                (nx2 - nx1) * (ny2 - ny1),
                Max(base.confidence, other.confidence), NoClass)

\* The inner loop "for j in range(i + 1, len(merged))" for one base.
RECURSIVE MergeInto(_, _, _, _)
MergeInto(merged, base, j, skip) ==
    IF j > Len(merged) THEN [base |-> base, skip |-> skip]
    ELSE IF j \in skip THEN MergeInto(merged, base, j + 1, skip)
    ELSE IF ShouldMerge(bbox_abs(base.bbox), bbox_abs(merged[j].bbox))
         THEN MergeInto(merged, MergedElement(base, merged[j]), j + 1, skip \cup {j})
         ELSE MergeInto(merged, base, j + 1, skip)

\* One execution of the body of "while changed": the outer loop over i.
RECURSIVE MergeScan(_, _, _, _)
MergeScan(merged, i, skip, result) ==
    IF i > Len(merged) THEN [result |-> result, changed |-> skip # {}]
    ELSE IF i \in skip THEN MergeScan(merged, i + 1, skip, result)
    ELSE LET r == MergeInto(merged, merged[i], i + 1, skip)
         IN  MergeScan(merged, i + 1, r.skip, Append(result, r.base))

RECURSIVE MergeUntilStable(_)
MergeUntilStable(merged) ==
    LET scan == MergeScan(merged, 1, {}, <<>>)
    IN  IF scan.changed THEN MergeUntilStable(scan.result) ELSE scan.result

\* Mutant: one scan of the list instead of "while changed".
merge_overlapping_elements_one_scan(elements) ==
    IF Len(elements) < 2 THEN elements
    ELSE MergeScan(elements, 1, {}, <<>>).result

merge_overlapping_elements(elements) ==
    IF Len(elements) < 2 THEN elements ELSE MergeUntilStable(elements)

(***************************************************************************)
(* _merge_and_dedupe                                                       *)
(***************************************************************************)
\* combined = base + new, then the two passes.
MergeStep(combined) ==
    merge_overlapping_elements(remove_duplicate_elements(combined))

merge_and_dedupe(base, new) ==
    IF new = <<>> THEN base ELSE MergeStep(base \o new)

(***************************************************************************)
(* The merge step applied to a list and then to its own output.            *)
(* Inputs: lists of at most MaxBoxes boxes of a DedupeW x DedupeH pixel    *)
(* image, drawn from BoxPool, with the confidences of a ConfidenceOrders   *)
(* pattern.                                                                *)
(***************************************************************************)
MaxBoxes == 3

\* Edges, in pixels, of the boxes the lists are drawn from.
PoolLefts == {0, 1}
PoolTops == {0}
PoolRights == {3, 6}
PoolBottoms == {1, 3, 4}

BoxPool ==
    {[x |-> l * Sub, y |-> t * Sub, w |-> (r - l) * Sub, h |-> (b - t) * Sub] :
        l \in PoolLefts, t \in PoolTops, r \in PoolRights, b \in PoolBottoms}

\* Confidence (thousandths) of the i-th element of a list of n elements.
ConfidenceOrders == {"descending", "ascending", "equal"}
ConfidenceAt(order, i, n) ==
    CASE order = "descending" -> 400 + 100 * (n - i)
      [] order = "ascending" -> 400 + 100 * i
      [] OTHER -> 500

BoxLists ==
    UNION {[1..n -> BoxPool] : n \in 0..MaxBoxes}

ElementList(boxes, order) ==
    [i \in 1..Len(boxes) |->
        [bbox |-> boxes[i], area |-> boxes[i].w * boxes[i].h,
         confidence |-> ConfidenceAt(order, i, Len(boxes)),
         class_name |-> NoClass]]

InitDedupe ==
    /\ dd_pc = "input"
    /\ \E boxes \in BoxLists, order \in ConfidenceOrders :
           dd_input = ElementList(boxes, order)
    /\ dd_once = <<>>
    /\ dd_twice = <<>>
    /\ dd_deduped = <<>>
    /\ dd_merged = <<>>
    /\ DiffIdle
    /\ DetectIdle
    /\ CompareIdle
    /\ GenerateIdle
    /\ HandlesIdle
    /\ LoadIdle
    /\ GridIdle
    /\ MergeIdle
    /\ RequestIdle
    /\ AnalysesIdle

\* combined = _remove_duplicate_elements(combined); _merge_overlapping_elements(combined)
ApplyMergeStep ==
    /\ dd_pc = "input"
    /\ dd_once' = MergeStep(dd_input)
    /\ dd_pc' = "once"
    /\ UNCHANGED <<dd_input, dd_twice, dd_deduped, dd_merged>>
    /\ UNCHANGED <<daVars, detVars, cmVars, gtVars, mhVars, liVars, gfVars, msVars, rqVars, anVars>>

\* The same step on its own output.
ApplyMergeStepAgain ==
    /\ dd_pc = "once"
    /\ dd_twice' = MergeStep(dd_once)
    /\ dd_pc' = "twice"
    /\ UNCHANGED <<dd_input, dd_once, dd_deduped, dd_merged>>
    /\ UNCHANGED <<daVars, detVars, cmVars, gtVars, mhVars, liVars, gfVars, msVars, rqVars, anVars>>

\* _remove_duplicate_elements called on the list by itself.
RemoveDuplicateElements ==
    /\ dd_pc = "input"
    /\ dd_deduped' = remove_duplicate_elements(dd_input)
    /\ dd_pc' = "deduped"
    /\ UNCHANGED <<dd_input, dd_once, dd_twice, dd_merged>>
    /\ UNCHANGED <<daVars, detVars, cmVars, gtVars, mhVars, liVars, gfVars, msVars, rqVars, anVars>>

\* _merge_overlapping_elements called on the list by itself.
MergeOverlappingElements ==
    /\ dd_pc = "input"
    /\ dd_merged' = merge_overlapping_elements(dd_input)
    /\ dd_pc' = "merged"
    /\ UNCHANGED <<dd_input, dd_once, dd_twice, dd_deduped>>
    /\ UNCHANGED <<daVars, detVars, cmVars, gtVars, mhVars, liVars, gfVars, msVars, rqVars, anVars>>

NextDedupe ==
    \/ ApplyMergeStep
    \/ ApplyMergeStepAgain
    \/ RemoveDuplicateElements
    \/ MergeOverlappingElements

SpecDedupe == InitDedupe /\ [][NextDedupe]_vars

ElementSet(elements) == {elements[i] : i \in 1..Len(elements)}

\* C3: the merge step is idempotent: applied to its own output it returns
\* the same set of elements, dropping none and merging none.
C3_MergeStepIdempotent ==
    dd_pc = "twice" =>
        /\ ElementSet(dd_twice) = ElementSet(dd_once)
        /\ Len(dd_twice) = Len(dd_once)

\* Intersection over union and containment of two boxes as exact ratios.
BoxIoUAbove(p, q, pct) ==
    LET a == bbox_abs(p)
        b == bbox_abs(q)
        inter == RectArea(Intersection(a, b))
    IN  /\ Overlaps(a, b)
        /\ inter * 100 > pct * (RectArea(a) + RectArea(b) - inter)

BoxContainmentAbove(p, q, pct) ==
    LET a == bbox_abs(p)
        b == bbox_abs(q)
        inter == RectArea(Intersection(a, b))
    IN  /\ Overlaps(a, b)
        /\ inter * 100 > pct * Min(RectArea(a), RectArea(b))

\* The injections of 1..m into 1..n: where each kept element came from.
Selections(m, n) ==
    {f \in [1..m -> 1..n] : \A j, k \in 1..m : f[j] = f[k] => j = k}

GroupUnion(group) ==
    LET left == CHOOSE v \in {dd_input[i].bbox.x : i \in group} :
                    \A i \in group : v <= dd_input[i].bbox.x
        top == CHOOSE v \in {dd_input[i].bbox.y : i \in group} :
                   \A i \in group : v <= dd_input[i].bbox.y
        right == CHOOSE v \in {dd_input[i].bbox.x + dd_input[i].bbox.w : i \in group} :
                     \A i \in group : v >= dd_input[i].bbox.x + dd_input[i].bbox.w
        bottom == CHOOSE v \in {dd_input[i].bbox.y + dd_input[i].bbox.h : i \in group} :
                      \A i \in group : v >= dd_input[i].bbox.y + dd_input[i].bbox.h
    IN  [x |-> left, y |-> top, w |-> right - left, h |-> bottom - top]

GroupConfidence(group) ==
    CHOOSE v \in {dd_input[i].confidence : i \in group} :
        \A i \in group : v >= dd_input[i].confidence

Pixels(w, h) == (0..(w - 1)) \X (0..(h - 1))

Clamp(v, lo, hi) == Max(lo, Min(v, hi))

\* The elements of a set, listed (a set given by a predicate is held as the
\* predicate; the image operations below read each mask many times).
Listed(S) == {x : x \in S}

Mask(w, h, nz) == [w |-> w, h |-> h, nz |-> Listed(nz)]

\* mask[y0:y1, x0:x1]: the pixels of the half-open rectangle.
RectPixels(x0, y0, x1, y1) == (x0..(x1 - 1)) \X (y0..(y1 - 1))

\* Aperture of cv2.medianBlur(diff_mask, 5).
MedianAperture == 5

\* cv2.medianBlur on a 0/255 image: a pixel is 255 iff more than half of the
\* aperture around it is; the border is replicated (BORDER_REPLICATE).
median_blur(m) ==
    LET r == MedianAperture \div 2
        window == (-r..r) \X (-r..r)
        count(p) == Cardinality({d \in window :
                        <<Clamp(p[1] + d[1], 0, m.w - 1),
                          Clamp(p[2] + d[2], 0, m.h - 1)>> \in m.nz})
    IN  Mask(m.w, m.h,
             {p \in Pixels(m.w, m.h) : 2 * count(p) > MedianAperture * MedianAperture})

\* The 3 x 3 neighbourhood of a pixel that lies inside the image: erosion and
\* dilation ignore the pixels outside of it (cv2's default border value).
Neighbourhood(p, w, h) ==
    {q \in ((p[1] - 1)..(p[1] + 1)) \X ((p[2] - 1)..(p[2] + 1)) :
        q[1] >= 0 /\ q[1] < w /\ q[2] >= 0 /\ q[2] < h}

morph_erode(m) ==
    Mask(m.w, m.h, {p \in m.nz : Neighbourhood(p, m.w, m.h) \subseteq m.nz})

morph_dilate(m) ==
    Mask(m.w, m.h,
         {p \in Pixels(m.w, m.h) : Neighbourhood(p, m.w, m.h) \cap m.nz # {}})

\* cv2.morphologyEx(mask, cv2.MORPH_OPEN, kernel, iterations=1)
morph_open(m) == morph_dilate(morph_erode(m))

\* cv2.morphologyEx(mask, cv2.MORPH_CLOSE, kernel, iterations=2)
morph_close2(m) == morph_erode(morph_erode(morph_dilate(morph_dilate(m))))

(***************************************************************************)
(* analyze_elements_diff                                                   *)
(***************************************************************************)
\* padded_mask: median blur, opening and dilation of diff_mask.
PaddedMask(mask) == morph_dilate(morph_open(median_blur(mask)))

\* Thresholds are in hundredths, min_pixels and max_shift_px in pixels.
DiffArgs(missing, changed, ratio, pixels, shift) ==
    [missing_threshold |-> missing, changed_threshold |-> changed,
     min_ratio |-> ratio, min_pixels |-> pixels, max_shift_px |-> shift]

\* Defaults of the signature of analyze_elements_diff.
DefaultMissingThreshold == 70
DefaultChangedThreshold == 30
DefaultMinRatio == 4
DefaultMinPixels == 120
DefaultMaxShiftPx == 0

DefaultArgs ==
    DiffArgs(DefaultMissingThreshold, DefaultChangedThreshold, DefaultMinRatio,
             DefaultMinPixels, DefaultMaxShiftPx)

\* Shares of the box area a 'missing' and a 'shifted' verdict need, in hundredths.
MissingAreaShare == 15
ShiftedAreaShare == 6
\* effective_missing is at least effective_changed + 0.2
MissingMargin == 20

\* The pixel box of an element on a w x h mask.
ElementBox(bbox, w, h) ==
    LET x == Max(0, Min(bbox.x \div Sub, w - 1))
        y == Max(0, Min(bbox.y \div Sub, h - 1))
    IN  [x |-> x, y |-> y,
         width |-> Max(1, Min(bbox.w \div Sub, w - x)),
         height |-> Max(1, Min(bbox.h \div Sub, h - y))]

\* The box padded by pad pixels and clipped to the mask: (x0, y0, x1, y1).
PaddedRegion(box, pad, w, h) ==
    <<Max(0, box.x - pad), Max(0, box.y - pad),
      Min(w, box.x + box.width + pad), Min(h, box.y + box.height + pad)>>

\* Mutant: the smaller of the two thresholds instead of the larger.
effective_changed_min(args) == Min(args.changed_threshold, args.min_ratio)

effective_changed(args) == Max(args.changed_threshold, args.min_ratio)
\* Mutant: the 'missing' threshold without its margin over 'changed'.
effective_missing_no_margin(args) == args.missing_threshold

effective_missing(args) ==
    Max(args.missing_threshold, effective_changed(args) + MissingMargin)
min_pixels_missing(args, box) ==
    Max(args.min_pixels, (box.width * box.height * MissingAreaShare) \div 100)
\* Mutant: the 'shifted' floor without its share of the box area.
min_pixels_shifted_flat(args, box) == args.min_pixels \div 2

min_pixels_shifted(args, box) ==
    Max(args.min_pixels \div 2, (box.width * box.height * ShiftedAreaShare) \div 100)

\* mismatch_ratio >= threshold, with mismatch_ratio = diff_pixels / roi_area
RatioAtLeast(diff_pixels, roi_area, threshold) ==
    diff_pixels * 100 >= threshold * roi_area

\* Mutant: the 'shifted' branch tested before the 'missing' branch.
ElementStatus_shifted_first(diff_pixels, roi_area, args, box) ==
    IF /\ RatioAtLeast(diff_pixels, roi_area, effective_changed(args))
       /\ diff_pixels >= min_pixels_shifted(args, box)
    THEN "shifted"
    ELSE IF /\ RatioAtLeast(diff_pixels, roi_area, effective_missing(args))
            /\ diff_pixels >= min_pixels_missing(args, box)
    THEN "missing"
    ELSE "ok"

ElementStatus(diff_pixels, roi_area, args, box) ==
    IF /\ RatioAtLeast(diff_pixels, roi_area, effective_missing(args))
       /\ diff_pixels >= min_pixels_missing(args, box)
    THEN "missing"
    ELSE IF /\ RatioAtLeast(diff_pixels, roi_area, effective_changed(args))
            /\ diff_pixels >= min_pixels_shifted(args, box)
    THEN "shifted"
    ELSE "ok"

\* The body of "for element in elements_iterable".
ElementInfo(element, padded_mask, args) ==
    LET box == ElementBox(element.bbox, padded_mask.w, padded_mask.h)
        pad == Max(0, args.max_shift_px)
        region == PaddedRegion(box, pad, padded_mask.w, padded_mask.h)
        roi == RectPixels(region[1], region[2], region[3], region[4])
        roi_area == Max(1, Cardinality(roi))
        diff_pixels == Cardinality(roi \cap padded_mask.nz)
    IN  [id |-> element.id, bbox |-> element.bbox,
         diff_pixels |-> diff_pixels, roi_area |-> roi_area,
         status |-> ElementStatus(diff_pixels, roi_area, args, box)]

CountStatus(infos, status) ==
    Cardinality({i \in 1..Len(infos) : infos[i].status = status})

analyze_elements_diff(elements, mask, args) ==
    IF mask = None
    THEN [elements |-> <<>>, stats |-> [missing |-> 0, shifted |-> 0, ok |-> 0]]
    ELSE LET padded_mask == PaddedMask(mask)
             infos == [i \in 1..Len(elements) |->
                          ElementInfo(elements[i], padded_mask, args)]
         IN  [elements |-> infos,
              stats |-> [missing |-> CountStatus(infos, "missing"),
                         shifted |-> CountStatus(infos, "shifted"),
                         ok |-> CountStatus(infos, "ok")]]

\* Settings read by compare_reference_with_actual, with their defaults:
\* CV_DIFF_TOLERANCE, CV_ELEMENT_DIFF_RATIO (hundredths), CV_ELEMENT_SHIFT_PX.
CV_DIFF_TOLERANCE == 12
CV_ELEMENT_DIFF_RATIO == 12
CV_ELEMENT_SHIFT_PX == 18
\* min(0.95, diff_threshold + 0.45) and max(0.15, CV_ELEMENT_DIFF_RATIO)
TaskMissingCap == 95
TaskMissingOffset == 45
TaskChangedFloor == 15

\* The arguments compare_reference_with_actual passes to analyze_elements_diff.
TaskArgs(diff_threshold, element_diff_ratio, shift_px) ==
    DiffArgs(Min(TaskMissingCap, diff_threshold + TaskMissingOffset),
             Max(TaskChangedFloor, element_diff_ratio),
             element_diff_ratio, DefaultMinPixels, shift_px)

(***************************************************************************)
(* Calls of analyze_elements_diff.                                         *)
(* Inputs: a mask of one of MaskSizes; up to MaxElements stored elements   *)
(* of that image; the threshold arguments of ArgChoices.                   *)
(***************************************************************************)
MaskW == 24
MaskH == 16
SmallMaskSide == 10
MaxElements == 2
MaxShift == 3

MaskSizes == {<<MaskW, MaskH>>, <<SmallMaskSide, SmallMaskSide>>}

\* A bbox whose pixel box is (x, y, w, h), all in sub-pixel units.
SubBox(x, y, w, h) == [x |-> x, y |-> y, w |-> w, h |-> h]
PixelBox(x, y, w, h) == SubBox(x * Sub, y * Sub, w * Sub, h * Sub)

\* Stored boxes: pixel-aligned ones, one between pixels, and the degenerate
\* box of an element stored without extent.
StoredBoxes(w, h) ==
    {b \in {PixelBox(6, 3, 10, 10), PixelBox(2, 2, 12, 10), PixelBox(1, 1, 5, 4),
            SubBox(150, 90, 330, 200), PixelBox(0, 0, 0, 0)} :
        b.x + b.w <= w * Sub /\ b.y + b.h <= h * Sub}

ElementRows(w, h) ==
    LET boxes == StoredBoxes(w, h)
    IN  UNION {{<<[id |-> 1, bbox |-> b]>> : b \in boxes},
               IF MaxElements >= 2
               THEN {<<[id |-> 1, bbox |-> b], [id |-> 2, bbox |-> c]>> :
                        b \in boxes, c \in {PixelBox(1, 1, 5, 4)}}
               ELSE {}}

\* The mask that is nonzero exactly over the pixel box of a stored element.
BoxMask(bbox, w, h) ==
    LET box == ElementBox(bbox, w, h)
    IN  Mask(w, h, RectPixels(box.x, box.y, box.x + box.width, box.y + box.height))

\* The mask of an element displaced d pixels to the right: nonzero exactly
\* where the old and the new position do not overlap.
ShiftMask(bbox, d, w, h) ==
    LET box == ElementBox(bbox, w, h)
        old == RectPixels(box.x, box.y, box.x + box.width, box.y + box.height)
        new == RectPixels(box.x + d, box.y, box.x + d + box.width, box.y + box.height)
    IN  Mask(w, h, ((old \ new) \cup (new \ old)) \cap Pixels(w, h))

\* Rectangular difference regions placed independently of the elements.
RegionMasks(w, h) ==
    {Mask(w, h, RectPixels(l, t, l + rw, t + rh) \cap Pixels(w, h)) :
        l \in {0, 6, 14}, t \in {0, 3}, rw \in {3, 8}, rh \in {9}}

MaskChoices(rows, w, h) ==
    {None, Mask(w, h, {}), Mask(w, h, Pixels(w, h)), BoxMask(rows[1].bbox, w, h)}
        \cup {ShiftMask(rows[1].bbox, d, w, h) : d \in 1..MaxShift}
        \cup RegionMasks(w, h)

ArgChoices ==
    {DefaultArgs,
     TaskArgs(CV_DIFF_TOLERANCE, CV_ELEMENT_DIFF_RATIO, CV_ELEMENT_SHIFT_PX),
     TaskArgs(CV_DIFF_TOLERANCE, CV_ELEMENT_DIFF_RATIO, 0),
     TaskArgs(CV_DIFF_TOLERANCE, CV_ELEMENT_DIFF_RATIO, MaxShift),
     DiffArgs(70, 5, 4, 2, 0),
     DiffArgs(70, 30, 0, 0, 0),
     DiffArgs(0, 0, 0, 0, 0)}

InitDiff ==
    /\ da_pc = "call"
    /\ \E size \in MaskSizes :
         \E rows \in ElementRows(size[1], size[2]) :
           /\ tc_elements = rows
           /\ diff_mask \in MaskChoices(rows, size[1], size[2])
    /\ da_args \in ArgChoices
    /\ da_result = None
    /\ DedupeIdle
    /\ DetectIdle
    /\ CompareIdle
    /\ GenerateIdle
    /\ HandlesIdle
    /\ LoadIdle
    /\ GridIdle
    /\ MergeIdle
    /\ RequestIdle
    /\ AnalysesIdle

AnalyzeElementsDiff ==
    /\ da_pc = "call"
    /\ da_result' = analyze_elements_diff(tc_elements, diff_mask, da_args)
    /\ da_pc' = "returned"
    /\ UNCHANGED <<diff_mask, tc_elements, da_args>>
    /\ UNCHANGED <<ddVars, detVars, cmVars, gtVars, mhVars, liVars, gfVars, msVars, rqVars, anVars>>

NextDiff == AnalyzeElementsDiff

SpecDiff == InitDiff /\ [][NextDiff]_vars

(***************************************************************************)
(* Claims about analyze_elements_diff (SpecDiff).                          *)
(***************************************************************************)
Returned == da_pc = "returned" /\ diff_mask # None

IsBlank(mask) == mask # None /\ mask.nz = {}
IsFull(mask) == mask # None /\ mask.nz = Pixels(mask.w, mask.h)

InfoOf(i) == da_result.elements[i]
BoxOf(i) == ElementBox(tc_elements[i].bbox, diff_mask.w, diff_mask.h)
StoredIds == 1..Len(tc_elements)

\* C4 as stated: on an all-zero mask every element is 'ok', for every
\* element set, shift tolerance and choice of thresholds.
C4_BlankMaskAllOk ==
    (Returned /\ IsBlank(diff_mask)) =>
        /\ \A i \in StoredIds : InfoOf(i).status = "ok"
        /\ da_result.stats.missing = 0
        /\ da_result.stats.shifted = 0

\* C4 amended: on an all-zero mask every element is 'ok' and the stats count
\* no missing and no shifted element, for every element set and shift
\* tolerance and every choice of thresholds with
\* max(changed_threshold, min_ratio) > 0.
C4_BlankMaskAllOkPositiveThreshold ==
    (/\ Returned /\ IsBlank(diff_mask)
     /\ (da_args.changed_threshold > 0 \/ da_args.min_ratio > 0)) =>
        /\ \A i \in StoredIds : InfoOf(i).status = "ok"
        /\ da_result.stats.missing = 0
        /\ da_result.stats.shifted = 0
        /\ da_result.stats.ok = Len(tc_elements)

C4_Witness ==
    /\ Returned /\ IsBlank(diff_mask)
    /\ da_args.min_ratio = 0 /\ da_args.min_pixels = 0
    /\ da_args.changed_threshold > 0
    /\ Len(tc_elements) = 2
    /\ BoxOf(1).width * BoxOf(1).height = 1
    /\ InfoOf(1).status = "ok"

\* The argument sets C5 names: the defaults of the signature and those of
\* the comparison task (shift 18 px).
C5Args ==
    {DefaultArgs,
     TaskArgs(CV_DIFF_TOLERANCE, CV_ELEMENT_DIFF_RATIO, CV_ELEMENT_SHIFT_PX)}

\* positive pixel width and height
NonDegenerate(bbox) == bbox.w \div Sub > 0 /\ bbox.h \div Sub > 0

\* C5 as stated: on a mask that is nonzero everywhere every element with a
\* non-degenerate box is 'missing', with the default and with the task's
\* arguments.
C5_FullMaskAllMissing ==
    (Returned /\ IsFull(diff_mask) /\ da_args \in C5Args) =>
        \A i \in StoredIds :
            NonDegenerate(tc_elements[i].bbox) => InfoOf(i).status = "missing"

\* C5 amended: on a mask that is nonzero everywhere, with the default and
\* with the task's arguments, every element whose padded region holds at
\* least min_pixels (120) pixels is 'missing'.
C5_FullMaskMissingAboveMinPixels ==
    (Returned /\ IsFull(diff_mask) /\ da_args \in C5Args) =>
        \A i \in StoredIds :
            LET r == PaddedRegion(BoxOf(i), da_args.max_shift_px,
                                  diff_mask.w, diff_mask.h)
            IN  (r[3] - r[1]) * (r[4] - r[2]) >= da_args.min_pixels
                    => InfoOf(i).status = "missing"

C5_Witness ==
    /\ Returned /\ IsFull(diff_mask)
    /\ da_args = DefaultArgs
    /\ BoxOf(1).width * BoxOf(1).height = DefaultMinPixels
    /\ InfoOf(1).status = "missing"

\* The decision C6 describes, written out from the returned counts.
C6Changed == IF da_args.changed_threshold >= da_args.min_ratio
             THEN da_args.changed_threshold ELSE da_args.min_ratio
C6Missing == IF da_args.missing_threshold >= C6Changed + 20
             THEN da_args.missing_threshold ELSE C6Changed + 20
C6Area(i) == BoxOf(i).width * BoxOf(i).height
C6MissingFloor(i) ==
    IF da_args.min_pixels >= (C6Area(i) * 15) \div 100
    THEN da_args.min_pixels ELSE (C6Area(i) * 15) \div 100
C6ShiftedFloor(i) ==
    IF da_args.min_pixels \div 2 >= (C6Area(i) * 6) \div 100
    THEN da_args.min_pixels \div 2 ELSE (C6Area(i) * 6) \div 100
C6IsMissing(i) ==
    /\ InfoOf(i).diff_pixels * 100 >= C6Missing * InfoOf(i).roi_area
    /\ InfoOf(i).diff_pixels >= C6MissingFloor(i)
C6IsShifted(i) ==
    /\ ~C6IsMissing(i)
    /\ InfoOf(i).diff_pixels * 100 >= C6Changed * InfoOf(i).roi_area
    /\ InfoOf(i).diff_pixels >= C6ShiftedFloor(i)
C6Decision(i) ==
    /\ InfoOf(i).status = "missing" <=> C6IsMissing(i)
    /\ InfoOf(i).status = "shifted" <=> C6IsShifted(i)
    /\ InfoOf(i).status = "ok" <=> (~C6IsMissing(i) /\ ~C6IsShifted(i))

\* C6 as stated: the status follows the two-threshold decision, and
\* 'missing' is never assigned with fewer changed pixels than 15% of the box
\* area, 'shifted' never with fewer than 6%.
C6_StatusDecisionExactShares ==
    Returned =>
        \A i \in StoredIds :
            /\ C6Decision(i)
            /\ InfoOf(i).status = "missing"
                   => InfoOf(i).diff_pixels * 100 >= 15 * C6Area(i)
            /\ InfoOf(i).status = "shifted"
                   => InfoOf(i).diff_pixels * 100 >= 6 * C6Area(i)

\* C6 amended: the status follows the two-threshold decision; 'missing' is
\* never assigned with fewer changed pixels than the integer part of 15% of
\* the box area, 'shifted' never with fewer than the integer part of 6%.
C6_StatusDecisionTruncatedShares ==
    Returned =>
        \A i \in StoredIds :
            /\ C6Decision(i)
            /\ InfoOf(i).status = "missing"
                   => InfoOf(i).diff_pixels >= (15 * C6Area(i)) \div 100
            /\ InfoOf(i).status = "shifted"
                   => InfoOf(i).diff_pixels >= (6 * C6Area(i)) \div 100

C6_Witness ==
    /\ Returned
    /\ Len(tc_elements) = 2
    /\ InfoOf(1).status = "missing"
    /\ InfoOf(2).status = "shifted"
    /\ InfoOf(2).diff_pixels < InfoOf(2).roi_area

\* C7: an element removed entirely (mask nonzero over the whole of its box
\* and zero elsewhere) is 'missing' under the thresholds of the comparison
\* (tolerance 0.12, element diff ratio 0.12, shift tolerance 18 px).
C7_RemovedElementMissing ==
    (/\ Returned
     /\ da_args = TaskArgs(CV_DIFF_TOLERANCE, CV_ELEMENT_DIFF_RATIO, CV_ELEMENT_SHIFT_PX)
     /\ NonDegenerate(tc_elements[1].bbox)
     /\ diff_mask = BoxMask(tc_elements[1].bbox, diff_mask.w, diff_mask.h))
        => InfoOf(1).status = "missing"

\* C8: an element displaced by d pixels (mask nonzero exactly where the old
\* and the new position do not overlap) is 'shifted' when the shift
\* tolerance is smaller than d and 'ok' when it is at least d.
C8_DisplacedElementShiftedOrOk ==
    \A d \in 1..MaxShift :
        (/\ Returned
         /\ NonDegenerate(tc_elements[1].bbox)
         /\ BoxOf(1).x + BoxOf(1).width + d <= diff_mask.w
         /\ diff_mask = ShiftMask(tc_elements[1].bbox, d, diff_mask.w, diff_mask.h)
         /\ da_args = TaskArgs(CV_DIFF_TOLERANCE, CV_ELEMENT_DIFF_RATIO,
                               da_args.max_shift_px))
            => InfoOf(1).status =
                   (IF da_args.max_shift_px < d THEN "shifted" ELSE "ok")

(***************************************************************************)
(* Element detection.  What OpenCV and the learned detector find in an     *)
(* image is an input of the model; what the code does with it is computed. *)
(* An image is [w, h, channels, contours, varied, std]:                    *)
(*   contours - the contours the thresholding, edge and MSER passes        *)
(*              collect, each [area, x, y, ww, hh, roi_std] (contourArea,  *)
(*              boundingRect, and the std of the enhanced image there);    *)
(*   varied   - the grid cells <<row, col>> whose std is std; the std of   *)
(*              every other cell is 0.                                     *)
(* A call either returns a list or raises.                                 *)
(***************************************************************************)
Return(elements) == [raised |-> FALSE, elements |-> elements]
Raise == [raised |-> TRUE, elements |-> <<>>]

MIN_ELEMENTS_TARGET == 12

\* min(1.0, ...) on a confidence in thousandths.
CapConfidence(c) == Min(1000, c)

\* _contours_to_elements: the contours that survive the filters.
MinContourArea == 30
MinContourSide == 6
MaxSideShare == 98
MaxRelativeArea == 18
MinRoiStd == 12

ContourKept(cnt, w, h, total_area) ==
    LET min_area == Max(MinContourArea, (total_area * 2) \div 100000)
    IN  /\ ~(cnt.area < min_area \/ cnt.area * 10 > total_area * 8)
        /\ ~(cnt.ww < MinContourSide \/ cnt.hh < MinContourSide
               \/ cnt.ww * 100 > w * MaxSideShare \/ cnt.hh * 100 > h * MaxSideShare)
        /\ ~(cnt.area * 100 > MaxRelativeArea * total_area)
        /\ ~(cnt.roi_std < MinRoiStd)

ContourElement(cnt, w, h, total_area) ==
    LET x == Max(0, Min(cnt.x, w - 1))
        y == Max(0, Min(cnt.y, h - 1))
        ww == Max(1, Min(cnt.ww, w - x))
        hh == Max(1, Min(cnt.hh, h - y))
    IN  Element(x * Sub, y * Sub, ww * Sub, hh * Sub, cnt.area * PX2,
                CapConfidence(400 + (12000 * cnt.area) \div total_area), NoClass)

contours_to_elements(contours, w, h, total_area) ==
    LET Kept(cnt) == ContourKept(cnt, w, h, total_area)
        kept == SelectSeq(contours, Kept)
    IN  [i \in 1..Len(kept) |-> ContourElement(kept[i], w, h, total_area)]

\* _grid_fallback_detection
TallImage == 900
WideImage == 1200
variance_threshold == 18
GridShrink == 15
GridMinSide == 5

CellStd(img, row, col) == IF <<row, col>> \in img.varied THEN img.std ELSE 0

\* The box of one grid cell: the cell shrunk by 15% on each side.
GridElement(img, row, col, rows, cols) ==
    LET w == img.w
        h == img.h
        x1 == (col * w) \div cols
        x2 == ((col + 1) * w) \div cols
        y1 == (row * h) \div rows
        y2 == ((row + 1) * h) \div rows
        shrink_x == ((x2 - x1) * GridShrink) \div 100
        shrink_y == ((y2 - y1) * GridShrink) \div 100
        x1_shrunk == Min(Max(x1 + shrink_x, 0), w - 1)
        y1_shrunk == Min(Max(y1 + shrink_y, 0), h - 1)
        x2_shrunk == Max(Min(x2 - shrink_x, w), x1_shrunk + GridMinSide)
        y2_shrunk == Max(Min(y2 - shrink_y, h), y1_shrunk + GridMinSide)
    IN  Element(x1_shrunk * Sub, y1_shrunk * Sub,
                (x2_shrunk - x1_shrunk) * Sub, (y2_shrunk - y1_shrunk) * Sub,
                (x2_shrunk - x1_shrunk) * (y2_shrunk - y1_shrunk) * PX2,
                CapConfidence(350 + (CellStd(img, row, col) * 1000) \div 90),
                NoClass)

\* cell.size == 0, or std < variance_threshold: the cell is passed over.
GridCellKept(img, row, col, rows, cols) ==
    /\ (col * img.w) \div cols < ((col + 1) * img.w) \div cols
    /\ (row * img.h) \div rows < ((row + 1) * img.h) \div rows
    /\ CellStd(img, row, col) >= variance_threshold

\* The two boxes added when no cell is kept: thirds = [1/3, 2/3],
\* x = max(0, tx - 0.15), y = 0.1, w = 0.3, h = 0.15, confidence 0.35.
SyntheticElement(img, third) ==
    Element(Max(0, (third * Sub) \div 3 - (15 * Sub) \div 100) * img.w,
            ((10 * Sub) \div 100) * img.h,
            ((30 * Sub) \div 100) * img.w,
            ((15 * Sub) \div 100) * img.h,
            ((30 * Sub) \div 100) * img.w * ((15 * Sub) \div 100) * img.h,
            350, NoClass)

grid_fallback_detection(img) ==
    LET rows == IF img.h > TallImage THEN 5 ELSE 4
        cols == IF img.w > WideImage THEN 4 ELSE 3
        cells == [k \in 1..(rows * cols) |-> <<(k - 1) \div cols, (k - 1) % cols>>]
        Kept(c) == GridCellKept(img, c[1], c[2], rows, cols)
        kept == SelectSeq(cells, Kept)
        elements == [i \in 1..Len(kept) |->
                        GridElement(img, kept[i][1], kept[i][2], rows, cols)]
    IN  IF elements = <<>>
        THEN <<SyntheticElement(img, 1), SyntheticElement(img, 2)>>
        ELSE elements

\* _detect_elements_heuristic.  cv2.cvtColor(img, COLOR_BGR2GRAY) raises
\* cv2.error for an image that is not 3-channel.
detect_elements_heuristic(img) ==
    IF img.channels # 3 THEN Raise
    ELSE LET total_area == Max(1, img.w * img.h)
             elements == merge_overlapping_elements(remove_duplicate_elements(
                             contours_to_elements(img.contours, img.w, img.h, total_area)))
         IN  Return(IF Len(elements) < MIN_ELEMENTS_TARGET
                    THEN merge_and_dedupe(elements, grid_fallback_detection(img))
                    ELSE elements)

\* detect_elements_yolo.  A prediction is [raises, boxes]: model.predict
\* raises, or returns boxes [x1, y1, x2, y2, conf, cls] in pixels.  Every
\* exception is caught and turned into the empty list; so is the cv2.error
\* of cv2.cvtColor(img, COLOR_BGR2RGB) on an image that is not 3-channel.
SmallBox == 50

YoloElement(box, w, h) ==
    LET abs_w_raw == box.x2 - box.x1
        abs_h_raw == box.y2 - box.y1
        small == abs_w_raw < SmallBox \/ abs_h_raw < SmallBox
        correction_x_right ==
            IF small THEN Max(2, Min(4, (abs_w_raw * 8) \div 100))
            ELSE Max(1, Min(3, (abs_w_raw * 15) \div 1000))
        correction_y_down ==
            IF small THEN Max(2, Min(3, (abs_h_raw * 6) \div 100))
            ELSE Max(1, Min(2, abs_h_raw \div 100))
        xa1 == Max(0, Min(w - 1, box.x1 + correction_x_right))
        xa2 == Min(w, box.x2 + correction_x_right)
        ya1 == Max(0, Min(h - 1, box.y1 + correction_y_down))
        ya2 == Min(h, box.y2 + correction_y_down)
        x1 == Max(0, Min(xa1, w - 1))
        y1 == Max(0, Min(ya1, h - 1))
        x2 == Max(x1 + 1, Min(xa2, w))
        y2 == Max(y1 + 1, Min(ya2, h))
    IN  Element(x1 * Sub, y1 * Sub, (x2 - x1) * Sub, (y2 - y1) * Sub,
                (x2 - x1) * (y2 - y1) * PX2, box.conf, box.cls)

detect_elements_yolo(img, prediction) ==
    IF img.channels # 3 \/ prediction.raises THEN <<>>
    ELSE [i \in 1..Len(prediction.boxes) |->
             YoloElement(prediction.boxes[i], img.w, img.h)]

\* elem.get('class_name', 'unknown')
ConvertedElement(elem) ==
    [elem EXCEPT !.class_name = IF @ = NoClass THEN "unknown" ELSE @]

\* detect_elements_improved.  yolo.available is
\* YOLO_DETECTOR_AVAILABLE and is_yolo_available().
detect_elements_improved(img, opts, yolo) ==
    LET fallback == IF opts.fallback_to_heuristic
                    THEN detect_elements_heuristic(img)
                    ELSE Return(<<>>)
    IN  IF opts.use_yolo /\ yolo.available
        THEN LET first == detect_elements_yolo(img, yolo.first)
                 yolo_elements ==
                     IF Len(first) < MIN_ELEMENTS_TARGET
                     THEN merge_and_dedupe(first, detect_elements_yolo(img, yolo.second))
                     ELSE first
                 converted_elements ==
                     [i \in 1..Len(yolo_elements) |-> ConvertedElement(yolo_elements[i])]
             IN  IF yolo_elements = <<>> THEN fallback
                 ELSE IF Len(converted_elements) >= MIN_ELEMENTS_TARGET
                         \/ ~opts.fallback_to_heuristic
                      THEN Return(converted_elements)
                      ELSE LET heuristic_elements == detect_elements_heuristic(img)
                           IN  IF heuristic_elements.raised THEN fallback
                               ELSE Return(merge_and_dedupe(converted_elements,
                                               heuristic_elements.elements))
        ELSE fallback

(***************************************************************************)
(* Calls of detect_elements_improved.                                      *)
(* Inputs: an image of one of DetectSizes with 1 or 3 channels, one of     *)
(* the contour lists and cell patterns below, every setting of the two     *)
(* options, and a learned detector that is unavailable, raises, finds      *)
(* nothing or finds boxes.                                                 *)
(***************************************************************************)
DetectSizes == {<<10, 10>>, <<30, 24>>, <<60, 60>>}

Contour(area, x, y, ww, hh, roi_std) ==
    [area |-> area, x |-> x, y |-> y, ww |-> ww, hh |-> hh, roi_std |-> roi_std]

\* Twelve separate 6x6 contours, four to a row.
TwelveContours ==
    [k \in 1..12 |-> Contour(36, 2 + 12 * ((k - 1) % 4), 2 + 12 * ((k - 1) \div 4),
                             6, 6, 30)]

ContourChoices(w, h) ==
    {cs \in {<<>>,
             <<Contour(40, 1, 1, 8, 6, 30)>>,
             <<Contour(40, 1, 1, 8, 6, 30), Contour(36, 2, 1, 8, 6, 30)>>,
             <<Contour(40, 1, 1, 8, 6, 5), Contour(12, 3, 3, 5, 4, 30)>>,
             TwelveContours} :
        \A i \in 1..Len(cs) : cs[i].x + cs[i].ww <= w /\ cs[i].y + cs[i].hh <= h}

CellChoices ==
    {[varied |-> {}, std |-> 0],
     [varied |-> {<<0, 0>>}, std |-> 18],
     [varied |-> {<<3, 2>>}, std |-> 60],
     [varied |-> {<<0, 0>>, <<0, 1>>, <<2, 1>>}, std |-> 60]}

RawBox(x1, y1, x2, y2, conf, cls) ==
    [x1 |-> x1, y1 |-> y1, x2 |-> x2, y2 |-> y2, conf |-> conf, cls |-> cls]

Prediction(boxes) == [raises |-> FALSE, boxes |-> boxes]
PredictionRaises == [raises |-> TRUE, boxes |-> <<>>]

\* Twelve separate 6x6 boxes, four to a row.
TwelveBoxes ==
    [k \in 1..12 |->
        RawBox(12 * ((k - 1) % 4), 12 * ((k - 1) \div 4),
               6 + 12 * ((k - 1) % 4), 6 + 12 * ((k - 1) \div 4), 900 - 10 * k,
               "button")]

FirstPredictions(w, h) ==
    {PredictionRaises,
     Prediction(<<>>),
     Prediction(<<RawBox(1, 1, 7, 5, 800, "button")>>),
     Prediction(<<RawBox(w - 3, h - 3, w + 2, h + 2, 600, "icon")>>),
     Prediction(<<RawBox(2, 2, 54, 54, 700, "image")>>),
     Prediction(TwelveBoxes)}

SecondPredictions ==
    {PredictionRaises,
     Prediction(<<>>),
     Prediction(<<RawBox(1, 1, 7, 5, 300, "button"), RawBox(2, 1, 8, 5, 200, "text")>>)}

InitDetect ==
    /\ det_pc = "call"
    /\ \E size \in DetectSizes :
         /\ \E channels \in {1, 3}, cells \in CellChoices :
              \E contours \in ContourChoices(size[1], size[2]) :
                 det_img = [w |-> size[1], h |-> size[2], channels |-> channels,
                            contours |-> contours, varied |-> cells.varied,
                            std |-> cells.std]
         /\ \E available \in BOOLEAN :
              \E first \in FirstPredictions(size[1], size[2]), second \in SecondPredictions :
                 det_yolo = [available |-> available, first |-> first, second |-> second]
    /\ det_opts \in [use_yolo : BOOLEAN, fallback_to_heuristic : BOOLEAN]
    /\ det_result = None
    /\ DedupeIdle
    /\ DiffIdle
    /\ CompareIdle
    /\ GenerateIdle
    /\ HandlesIdle
    /\ LoadIdle
    /\ GridIdle
    /\ MergeIdle
    /\ RequestIdle
    /\ AnalysesIdle

DetectElementsImproved ==
    /\ det_pc = "call"
    /\ det_result' = detect_elements_improved(det_img, det_opts, det_yolo)
    /\ det_pc' = "returned"
    /\ UNCHANGED <<det_img, det_opts, det_yolo>>
    /\ UNCHANGED <<ddVars, daVars, cmVars, gtVars, mhVars, liVars, gfVars, msVars, rqVars, anVars>>

NextDetect == DetectElementsImproved

SpecDetect == InitDetect /\ [][NextDetect]_vars

(***************************************************************************)
(* Claims about detect_elements_improved (SpecDetect).                     *)
(***************************************************************************)
\* C1: for every image (1 or 3 channels), every setting of the options and
\* every behaviour of the learned detector, detect_elements_improved
\* returns a list with at least one element.
C1_DetectionNeverEmpty ==
    det_pc = "returned" =>
        /\ ~det_result.raised
        /\ det_result.elements # <<>>

\* x >= 0, y >= 0, w > 0, h > 0, x + w <= 1 and y + h <= 1 for a bbox of a
\* w x h pixel image.
BoxInsideImage(bbox, w, h) ==
    /\ bbox.x >= 0
    /\ bbox.y >= 0
    /\ bbox.w > 0
    /\ bbox.h > 0
    /\ bbox.x + bbox.w <= w * Sub
    /\ bbox.y + bbox.h <= h * Sub

\* C2: every element the detector returns has a bounding box inside the
\* unit square: x >= 0, y >= 0, w > 0, h > 0, x + w <= 1, y + h <= 1.
C2_ReturnedBoxesInsideImage ==
    (det_pc = "returned" /\ ~det_result.raised) =>
        \A i \in 1..Len(det_result.elements) :
            BoxInsideImage(det_result.elements[i].bbox, det_img.w, det_img.h)

\* The second pass runs when the first one gave fewer than
\* MIN_ELEMENTS_TARGET elements.
SecondPassRuns ==
    Len(detect_elements_yolo(det_img, det_yolo.first)) < MIN_ELEMENTS_TARGET

\* The learned detector is disabled, unavailable, returns nothing, or
\* raises during one of its passes.
DetectorGivesWay ==
    \/ ~det_opts.use_yolo
    \/ ~det_yolo.available
    \/ det_yolo.first.raises
    \/ SecondPassRuns /\ det_yolo.second.raises
    \/ /\ ~det_yolo.first.raises /\ det_yolo.first.boxes = <<>>
       /\ ~det_yolo.second.raises /\ det_yolo.second.boxes = <<>>

\* C16: with the heuristic fallback enabled, when the learned detector is
\* disabled, unavailable, returns nothing or raises during either pass,
\* detect_elements_improved raises nothing and returns exactly what
\* _detect_elements_heuristic produces for the same image.
C16_FallsBackToHeuristic ==
    (/\ det_pc = "returned"
     /\ det_opts.fallback_to_heuristic
     /\ DetectorGivesWay) =>
        /\ ~det_result.raised
        /\ det_result = detect_elements_heuristic(det_img)

(***************************************************************************)
(* Alignment and diff mask.  An image is [w, h, channels, nz]: a grayscale *)
(* picture of two levels, nz the set of its bright pixels (the three       *)
(* channels of a colour image are equal).  What ORB, the matcher, RANSAC   *)
(* and the warp do on a pair of images is the record cv:                   *)
(*   detect_ref, detect_act - orb.detectAndCompute: raises, or the number  *)
(*                            of keypoints (0: the descriptors are None);  *)
(*   match      - bf.match: raises, or the number of matches;              *)
(*   homography - cv2.findHomography: raises, H is None, or H found, the   *)
(*                translation by dx pixels;                                *)
(*   warp       - cv2.warpPerspective: raises or returns.                  *)
(***************************************************************************)
Image(w, h, channels, nz) ==
    [w |-> w, h |-> h, channels |-> channels, nz |-> Listed(nz)]

Outcome(value) == [raises |-> FALSE, value |-> value]
Raises == [raises |-> TRUE, value |-> 0]
Homography(dx) == [raises |-> FALSE, found |-> TRUE, dx |-> dx]
NoHomography == [raises |-> FALSE, found |-> FALSE, dx |-> 0]
HomographyRaises == [raises |-> TRUE, found |-> FALSE, dx |-> 0]

MinKeypoints == 6
MinMatches == 6
MaxMatches == 50

Aligned(image, applied) == [raised |-> FALSE, image |-> image, applied |-> applied]
AlignRaises == [raised |-> TRUE, image |-> None, applied |-> FALSE]

\* cv2.warpPerspective(actual, H, (reference.shape[1], reference.shape[0]))
\* for the translation H: the output has the reference's size, pixels that
\* come from outside the candidate are 0.
warp_perspective(actual, dx, w, h) ==
    Image(w, h, actual.channels,
          {p \in Pixels(w, h) : <<p[1] - dx, p[2]>> \in actual.nz})

\* align_image.  Only the two cv2.cvtColor calls are inside try/except:
\* cv2.COLOR_BGR2GRAY raises for an image that is not 3-channel.
align_image(reference, actual, cv) ==
    IF reference.channels # 3 \/ actual.channels # 3 THEN Aligned(actual, FALSE)
    ELSE IF cv.detect_ref.raises \/ cv.detect_act.raises THEN AlignRaises
    ELSE IF cv.detect_ref.value = 0 \/ cv.detect_act.value = 0
            \/ cv.detect_ref.value < MinKeypoints \/ cv.detect_act.value < MinKeypoints
         THEN Aligned(actual, FALSE)
    ELSE IF cv.match.raises THEN AlignRaises
    ELSE IF Min(cv.match.value, MaxMatches) < MinMatches THEN Aligned(actual, FALSE)
    ELSE IF cv.homography.raises THEN AlignRaises
    ELSE IF ~cv.homography.found THEN Aligned(actual, FALSE)
    ELSE IF cv.warp.raises THEN AlignRaises
    ELSE Aligned(warp_perspective(actual, cv.homography.dx, reference.w, reference.h),
                 TRUE)

\* structural_similarity(gray_ref, gray_act, full=True), window 7.  The
\* local index is 1 exactly where the two windows are equal; where they
\* differ it is taken to fall with the number of differing pixels of the
\* window, 1 - n/49 (in thousandths).  The score is the mean of the index
\* over the image without its border of (7 - 1) / 2 pixels.
SsimWindow == 7

RECURSIVE SumOf(_, _)
SumOf(f, S) ==
    IF S = {} THEN 0
    ELSE LET x == CHOOSE x \in S : TRUE
         IN  f[x] + SumOf(f, S \ {x})

Differing(a, b) == Listed((a.nz \ b.nz) \cup (b.nz \ a.nz))

\* The number of differing pixels in the window around each pixel.
DiffCount(a, b) ==
    LET r == (SsimWindow - 1) \div 2
        D == Differing(a, b)
    IN  [p \in Pixels(a.w, a.h) |->
            Cardinality({q \in D : /\ q[1] >= p[1] - r /\ q[1] <= p[1] + r
                                   /\ q[2] >= p[2] - r /\ q[2] <= p[2] + r})]

SsimScore(a, b) ==
    LET r == (SsimWindow - 1) \div 2
        d == DiffCount(a, b)
        inner == RectPixels(r, r, a.w - r, a.h - r)
    IN  1000 - (1000 * SumOf(d, inner)) \div (SsimWindow * SsimWindow * Cardinality(inner))

\* diff_map = 1 - diff_map; cv2.normalize(..., 0, 255, NORM_MINMAX) as
\* uint8: a constant map becomes 0 everywhere.
DiffNorm(a, b) ==
    LET d == DiffCount(a, b)
        values == {d[p] : p \in Pixels(a.w, a.h)}
        lo == CHOOSE v \in values : \A u \in values : v <= u
        hi == CHOOSE v \in values : \A u \in values : v >= u
    IN  [p \in Pixels(a.w, a.h) |->
            IF hi = lo THEN 0 ELSE ((d[p] - lo) * 255) \div (hi - lo)]

\* threshold_value = max(5, int(diff_threshold * 255))
MinThresholdValue == 5
threshold_value(diff_threshold) == Max(MinThresholdValue, (diff_threshold * 255) \div 100)

DiffResult(aligned_actual, mask, ssim_score) ==
    [raised |-> FALSE, aligned_actual |-> aligned_actual, mask |-> mask,
     ssim_score |-> ssim_score]
DiffRaises == [raised |-> TRUE, aligned_actual |-> None, mask |-> None, ssim_score |-> 0]

\* compute_diff_mask.  It raises when align_image raises, when
\* cv2.cvtColor raises (an image that is not 3-channel) and when
\* structural_similarity raises ValueError (images of different shapes, or
\* a side shorter than the window).  The thresholded map is opened once
\* (MORPH_OPEN) and closed with two iterations (MORPH_CLOSE).
compute_diff_mask(reference, actual, diff_threshold, cv) ==
    LET aligned == align_image(reference, actual, cv)
    IN  IF aligned.raised THEN DiffRaises
        ELSE IF reference.channels # 3 \/ aligned.image.channels # 3 THEN DiffRaises
        ELSE IF reference.w # aligned.image.w \/ reference.h # aligned.image.h
             THEN DiffRaises
        ELSE IF reference.w < SsimWindow \/ reference.h < SsimWindow THEN DiffRaises
        ELSE LET diff_norm == DiffNorm(reference, aligned.image)
                 thresholded ==
                     Mask(reference.w, reference.h,
                          {p \in Pixels(reference.w, reference.h) :
                              diff_norm[p] > threshold_value(diff_threshold)})
             IN  DiffResult(aligned.image, morph_close2(morph_open(thresholded)),
                            SsimScore(reference, aligned.image))

(***************************************************************************)
(* compare_reference_with_actual.  The Run row is                          *)
(* [status, error_message, finished, reference_diff_score, coverage,       *)
(*  details, defects]: finished is "finished_at is set", coverage is       *)
(* [matched, total], defects the severities of the Defect rows created.    *)
(***************************************************************************)
CV_SSIM_THRESHOLD == 880
MajorAbove == 780

\* cv2.imread (and the Pillow path) give every picture 3 channels (BGR).
imread(image) == [image EXCEPT !.channels = 3]

(***************************************************************************)
(* load_image.  decoders is what the two decoders make of the file at the  *)
(* path: each either raises, gives no image (cv2.imread returns None), or  *)
(* gives an image, whole or - for a file cut short that the decoder reads  *)
(* as far as it goes - only in part.  The result records the decoders      *)
(* that were tried.                                                        *)
(***************************************************************************)
Decoded(image) == [raises |-> FALSE, image |-> image, complete |-> TRUE]
DecodedPartly(image) == [raises |-> FALSE, image |-> image, complete |-> FALSE]
NoImage == [raises |-> FALSE, image |-> None, complete |-> FALSE]
DecoderRaises == [raises |-> TRUE, image |-> None, complete |-> FALSE]

Loaded(decoding, attempted) ==
    [raised |-> FALSE,
     image |-> IF decoding.image = None THEN None ELSE imread(decoding.image),
     complete |-> decoding.complete, attempted |-> attempted]

LoadRaises(attempted) ==
    [raised |-> TRUE, image |-> None, complete |-> FALSE, attempted |-> attempted]

load_image(path, decoders) ==
    IF path = ""
    THEN Loaded(NoImage, <<>>)
    ELSE IF decoders.imread.raises
    THEN LoadRaises(<<"cv2.imread">>)
    ELSE IF decoders.imread.image # None
    THEN Loaded(decoders.imread, <<"cv2.imread">>)
    ELSE IF decoders.pillow.raises
    THEN Loaded(NoImage, <<"cv2.imread", "Pillow">>)
    ELSE Loaded(decoders.pillow, <<"cv2.imread", "Pillow">>)

\* cv2.resize(actual, (w, h)): the image itself when the size is the same,
\* otherwise resampled (nearest source pixel).
resize(image, w, h) ==
    IF image.w = w /\ image.h = h THEN image
    ELSE Image(w, h, image.channels,
               {p \in Pixels(w, h) :
                   <<(p[1] * image.w) \div w, (p[2] * image.h) \div h>> \in image.nz})

TaskResult(run, returned) == [raised |-> FALSE, run |-> run, returned |-> returned]
TaskRaises(run) == [raised |-> TRUE, run |-> run, returned |-> None]

FailedRun(run, message) ==
    [run EXCEPT !.status = "failed", !.error_message = message, !.finished = TRUE]

compare_reference_with_actual(run, files, ref_file, act_file, elements, tol, cv) ==
    IF files.reference = "absent" \/ files.actual = "absent"
    THEN TaskResult(FailedRun(run, "Missing screenshots for comparison"),
                    [error |-> "missing screenshots"])
    ELSE IF files.reference = "nofile" \/ files.actual = "nofile"
    THEN TaskResult(FailedRun(run, "Screenshot file not found"),
                    [error |-> "file not found"])
    ELSE IF files.reference = "raises" \/ files.actual = "raises"
    THEN TaskRaises(run)
    ELSE IF files.reference = "undecodable" \/ files.actual = "undecodable"
    THEN TaskResult(FailedRun(run, "cv2.imread failed"), [error |-> "cv2 error"])
    ELSE
    LET reference == imread(ref_file)
        actual_resized == resize(imread(act_file), reference.w, reference.h)
        diff_threshold == tol
        diff == compute_diff_mask(reference, actual_resized, diff_threshold, cv)
    IN  IF diff.raised THEN TaskRaises(run)
        ELSE
        LET mismatched_pixels == Cardinality(diff.mask.nz)
            total_pixels == diff.mask.w * diff.mask.h
            total_elements == Len(elements)
            matched_elements ==
                Max(0, (total_elements * (Max(1, total_pixels) - mismatched_pixels))
                           \div Max(1, total_pixels))
            element_diagnostics ==
                analyze_elements_diff(elements, diff.mask,
                    TaskArgs(diff_threshold, CV_ELEMENT_DIFF_RATIO, CV_ELEMENT_SHIFT_PX))
            deviates == \/ diff.ssim_score < CV_SSIM_THRESHOLD
                        \/ mismatched_pixels * 100 > diff_threshold * Max(1, total_pixels)
            severity == IF diff.ssim_score > MajorAbove THEN "major" ELSE "critical"
        IN  TaskResult(
                [run EXCEPT !.status = "finished", !.finished = TRUE,
                            !.reference_diff_score = diff.ssim_score,
                            !.coverage = [matched |-> matched_elements,
                                          total |-> total_elements],
                            !.error_message = "",
                            !.details = element_diagnostics,
                            !.defects = IF deviates THEN Append(@, severity) ELSE @],
                [status |-> "done", diff_score |-> diff.ssim_score,
                 mismatched_pixels |-> mismatched_pixels,
                 total_pixels |-> total_pixels,
                 mask |-> diff.mask])

(***************************************************************************)
(* Calls of align_image, compute_diff_mask and the comparison task.        *)
(* Inputs: a reference and a candidate out of CompareImages (the candidate *)
(* is the reference itself, another picture of the same size, or one of    *)
(* another size), one of the tolerances, and one of the courses the        *)
(* OpenCV calls can take.  ORB is deterministic and the homography of a    *)
(* picture matched with itself is the identity: for equal images both      *)
(* keypoint counts are equal and dx = 0; a blank picture has no keypoint.  *)
(***************************************************************************)
CompareSide == 8
ShortSide == 6

CompareSizes == {<<CompareSide, CompareSide>>, <<CompareSide, SsimWindow>>,
                 <<ShortSide, ShortSide>>}

Pictures(w, h) ==
    {{}, RectPixels(2, 2, 5, 5) \cap Pixels(w, h), RectPixels(3, 2, 6, 5) \cap Pixels(w, h)}

CompareImages ==
    UNION {{Image(size[1], size[2], channels, nz) :
               channels \in {1, 3}, nz \in Pictures(size[1], size[2])} :
           size \in CompareSizes}

Tolerances == {0, CV_DIFF_TOLERANCE, 100}

Cv(detect_ref, detect_act, match, homography, warp) ==
    [detect_ref |-> detect_ref, detect_act |-> detect_act, match |-> match,
     homography |-> homography, warp |-> warp]

CvCourses ==
    {Cv(Raises, Outcome(8), Outcome(8), Homography(0), Outcome(0)),
     Cv(Outcome(8), Raises, Outcome(8), Homography(0), Outcome(0)),
     Cv(Outcome(0), Outcome(0), Outcome(0), NoHomography, Outcome(0)),
     Cv(Outcome(0), Outcome(8), Outcome(0), NoHomography, Outcome(0)),
     Cv(Outcome(8), Outcome(0), Outcome(0), NoHomography, Outcome(0)),
     Cv(Outcome(5), Outcome(8), Outcome(5), NoHomography, Outcome(0)),
     Cv(Outcome(8), Outcome(5), Outcome(5), NoHomography, Outcome(0)),
     Cv(Outcome(8), Outcome(8), Raises, Homography(0), Outcome(0)),
     Cv(Outcome(8), Outcome(8), Outcome(5), NoHomography, Outcome(0)),
     Cv(Outcome(8), Outcome(8), Outcome(8), HomographyRaises, Outcome(0)),
     Cv(Outcome(8), Outcome(8), Outcome(8), NoHomography, Outcome(0)),
     Cv(Outcome(8), Outcome(8), Outcome(8), Homography(0), Raises),
     Cv(Outcome(8), Outcome(8), Outcome(8), Homography(0), Outcome(0)),
     Cv(Outcome(8), Outcome(8), Outcome(8), Homography(1), Outcome(0))}

CvConsistent(reference, actual, cv) ==
    /\ (reference.nz = actual.nz /\ reference.w = actual.w /\ reference.h = actual.h) =>
           /\ (~cv.detect_ref.raises /\ ~cv.detect_act.raises)
                  => cv.detect_ref.value = cv.detect_act.value
           /\ cv.homography.dx = 0
    /\ reference.nz = {} => cv.detect_ref.value = 0
    /\ actual.nz = {} => cv.detect_act.value = 0

\* Each screenshot is stored and read ("ok"), not stored ("absent"), stored
\* without its file ("nofile"), or a file for which load_image returns None
\* ("undecodable") or raises ("raises").
FileStates ==
    {[reference |-> "ok", actual |-> "ok"],
     [reference |-> "absent", actual |-> "ok"],
     [reference |-> "ok", actual |-> "absent"],
     [reference |-> "nofile", actual |-> "ok"],
     [reference |-> "ok", actual |-> "nofile"],
     [reference |-> "undecodable", actual |-> "ok"],
     [reference |-> "ok", actual |-> "undecodable"],
     [reference |-> "raises", actual |-> "ok"],
     [reference |-> "ok", actual |-> "raises"]}

NewRun ==
    [status |-> "queued", error_message |-> "", finished |-> FALSE,
     reference_diff_score |-> None, coverage |-> None, details |-> None,
     defects |-> <<>>]

CompareElements(w, h) ==
    {<<>>,
     <<[id |-> 1, bbox |-> PixelBox(2, 2, 3, 3)], [id |-> 2, bbox |-> PixelBox(0, 0, w, 2)]>>}

InitCompare ==
    /\ cm_pc = "start"
    /\ cm_reference \in CompareImages
    /\ cm_actual \in {a \in CompareImages :
                         /\ a.channels = cm_reference.channels
                         /\ \/ a = cm_reference
                            \/ a.w = cm_reference.w /\ a.h = cm_reference.h
                            \/ a.w = ShortSide /\ a.h = ShortSide}
    /\ cm_cv \in {cv \in CvCourses : CvConsistent(cm_reference, cm_actual, cv)}
    /\ cm_files \in FileStates
    /\ cm_files # [reference |-> "ok", actual |-> "ok"]
           => /\ cm_cv = Cv(Outcome(0), Outcome(0), Outcome(0), NoHomography, Outcome(0))
              /\ cm_actual = cm_reference
    /\ cm_tolerance \in Tolerances
    /\ cm_align = None
    /\ cm_result = None
    /\ cm_run = NewRun
    /\ da_pc = "idle"
    /\ diff_mask = None
    /\ tc_elements \in CompareElements(cm_reference.w, cm_reference.h)
    /\ da_args = None
    /\ da_result = None
    /\ DedupeIdle
    /\ DetectIdle
    /\ GenerateIdle
    /\ HandlesIdle
    /\ LoadIdle
    /\ GridIdle
    /\ MergeIdle
    /\ RequestIdle
    /\ AnalysesIdle

AlignImage ==
    /\ cm_pc = "start"
    /\ cm_align' = align_image(cm_reference, cm_actual, cm_cv)
    /\ cm_pc' = "aligned"
    /\ UNCHANGED <<cm_reference, cm_actual, cm_files, cm_tolerance, cm_cv, cm_result, cm_run>>
    /\ UNCHANGED <<ddVars, daVars, detVars, gtVars, mhVars, liVars, gfVars, msVars, rqVars, anVars>>

ComputeDiffMask ==
    /\ cm_pc = "start"
    /\ cm_result' = compute_diff_mask(cm_reference, cm_actual, cm_tolerance, cm_cv)
    /\ cm_pc' = "diffed"
    /\ UNCHANGED <<cm_reference, cm_actual, cm_files, cm_tolerance, cm_cv, cm_align, cm_run>>
    /\ UNCHANGED <<ddVars, daVars, detVars, gtVars, mhVars, liVars, gfVars, msVars, rqVars, anVars>>

CompareReferenceWithActual ==
    /\ cm_pc = "start"
    /\ LET r == compare_reference_with_actual(cm_run, cm_files, cm_reference, cm_actual,
                                              tc_elements, cm_tolerance, cm_cv)
       IN  /\ cm_result' = [raised |-> r.raised, returned |-> r.returned]
           /\ cm_run' = r.run
    /\ cm_pc' = "compared"
    /\ UNCHANGED <<cm_reference, cm_actual, cm_files, cm_tolerance, cm_cv, cm_align>>
    /\ UNCHANGED <<ddVars, daVars, detVars, gtVars, mhVars, liVars, gfVars, msVars, rqVars, anVars>>

NextCompare == AlignImage \/ ComputeDiffMask \/ CompareReferenceWithActual

SpecCompare == InitCompare /\ [][NextCompare]_vars

(***************************************************************************)
(* Claims about alignment and comparison (SpecCompare).                    *)
(***************************************************************************)
\* The failure cases of align_image: grayscale conversion fails, too few
\* keypoints or no descriptors, too few matches, no homography, or an
\* exception in feature detection, matching, estimation or warping.
AlignFailureCase ==
    \/ cm_reference.channels # 3 \/ cm_actual.channels # 3
    \/ cm_cv.detect_ref.raises \/ cm_cv.detect_act.raises
    \/ cm_cv.detect_ref.value < MinKeypoints \/ cm_cv.detect_act.value < MinKeypoints
    \/ cm_cv.match.raises \/ cm_cv.match.value < MinMatches
    \/ cm_cv.homography.raises \/ ~cm_cv.homography.found
    \/ cm_cv.warp.raises

\* C9: align_image never raises; in every failure case it returns the
\* candidate unmodified with transform_applied = False; it returns
\* transform_applied = True only when a homography was estimated and the
\* candidate was warped to the reference's dimensions.
C9_AlignNeverAborts ==
    cm_pc = "aligned" =>
        /\ ~cm_align.raised
        /\ AlignFailureCase => (cm_align.image = cm_actual /\ ~cm_align.applied)
        /\ cm_align.applied =>
               /\ cm_cv.homography.found
               /\ cm_align.image.w = cm_reference.w
               /\ cm_align.image.h = cm_reference.h

\* No OpenCV call of align_image raises.
CvReturns ==
    ~(\/ cm_cv.detect_ref.raises \/ cm_cv.detect_act.raises \/ cm_cv.match.raises
      \/ cm_cv.homography.raises \/ cm_cv.warp.raises)

\* C10: comparing an image with itself gives, for every tolerance, a
\* similarity score of 1, a diff mask without nonzero pixels, and no
\* defect (no OpenCV call of the alignment raising).
C10_SelfCompareClean ==
    /\ (cm_pc = "diffed" /\ cm_actual = cm_reference /\ CvReturns) =>
           /\ ~cm_result.raised
           /\ cm_result.ssim_score = 1000
           /\ cm_result.mask.nz = {}
    /\ (cm_pc = "compared" /\ cm_actual = cm_reference /\ CvReturns
            /\ cm_files = [reference |-> "ok", actual |-> "ok"]) =>
           /\ ~cm_result.raised
           /\ cm_result.returned.diff_score = 1000
           /\ cm_result.returned.mismatched_pixels = 0
           /\ cm_run.defects = <<>>

\* C18: the coverage recorded for a comparison is the share of the test
\* case's elements whose diagnostic status is 'ok': matched_elements is the
\* number of such elements (and coverage_percent is 100 times matched over
\* total).
C18_CoverageCountsOkElements ==
    (cm_pc = "compared" /\ ~cm_result.raised /\ cm_run.status = "finished") =>
        /\ cm_run.coverage.total = Len(tc_elements)
        /\ cm_run.coverage.matched = cm_run.details.stats.ok

\* C20: when a screenshot of the comparison is missing, absent on disk or
\* cannot be decoded, compare_reference_with_actual returns an error value,
\* sets the run to 'failed' with a non-empty error_message and finished_at,
\* and creates no CoverageMetric and no Defect.
C20_MissingInputFailsRun ==
    (cm_pc = "compared" /\ cm_files # [reference |-> "ok", actual |-> "ok"]) =>
        /\ ~cm_result.raised
        /\ "error" \in DOMAIN cm_result.returned
        /\ cm_run.status = "failed"
        /\ cm_run.error_message # ""
        /\ cm_run.finished
        /\ cm_run.coverage = None
        /\ cm_run.defects = <<>>

(***************************************************************************)
(* Element classification.  What the classifiers read from the picture is  *)
(* the "look" of the element's region: mean_brightness and contrast on the *)
(* 0..255 scale, edge_density in hundredths, edge_std (the mean deviation  *)
(* of the four border strips), and what the learned classifier answers for *)
(* the region.  Type confidences are in thousandths, scores in hundredths. *)
(***************************************************************************)
Look(brightness, contrast, edge_density, edge_std, prediction) ==
    [mean_brightness |-> brightness, contrast |-> contrast,
     edge_density |-> edge_density, edge_std |-> edge_std,
     prediction |-> prediction]

Typed(element_type, confidence) ==
    [element_type |-> element_type, confidence |-> confidence]

\* The button score of rule 3, in hundredths.
ButtonScore(look, has_border) ==
    (IF has_border THEN 35 ELSE 0)
    + (IF look.contrast > 40 THEN 25 ELSE IF look.contrast > 30 THEN 15 ELSE 0)
    + (IF look.edge_density > 15 THEN 25
       ELSE IF look.edge_density > 10 THEN 15 ELSE 0)
    - (IF ~has_border /\ look.contrast < 25 THEN 40 ELSE 0)

\* The label score of rule 4, in hundredths.
LabelScore(look) ==
    (IF look.contrast < 25 THEN 40 ELSE 0)
    + (IF look.edge_density < 8 THEN 30 ELSE 0)

\* min(0.9, 0.5 + score * 0.4)
ScoreConfidence(score) == Min(900, 500 + score * 4)

\* classify_element_type: the rules in the order the code tries them; a rule
\* that does not return falls through to the next one.
classify_element_type(look, bbox, original_width, original_height) ==
    LET x == Max(0, bbox.x \div Sub)
        y == Max(0, bbox.y \div Sub)
        w == Max(1, bbox.w \div Sub)
        h == Max(1, bbox.h \div Sub)
        context_pad == 2
        x_start == Max(0, x - context_pad)
        y_start == Max(0, y - context_pad)
        x_end == Min(original_width, x + w + context_pad)
        y_end == Min(original_height, y + h + context_pad)
        area == w * h
        total_area == original_width * original_height
        contrast == look.contrast
        edge_density == look.edge_density
        border_thickness == Max(1, Min(3, (Min(w, h) * 5) \div 100))
        has_border == /\ w > border_thickness * 2
                      /\ h > border_thickness * 2
                      /\ look.edge_std > 15
        is_small == area * 1000 < total_area
        is_very_small == area * 10000 < total_area
        is_compact == w * 10 >= h * 8 /\ w * 10 <= h * 12
        score == ButtonScore(look, has_border)
        label_score == LabelScore(look)
        rule1 == is_very_small \/ (is_small /\ is_compact)
        rule2 == w * 10 > h * 25 /\ h * 100 < original_height * 6
        rule3 == /\ w * 10 >= h * 4 /\ w <= h * 4
                 /\ area * 10000 >= total_area * 5
                 /\ area * 100 <= total_area * 15
        rule4 == w * 10 > h * 15
        rule5 == /\ w * 10 >= h * 6 /\ w * 10 <= h * 14
                 /\ area * 100 > total_area * 3
        rule6 == w * 10 > h * 25 /\ area * 1000 < total_area * 5
        rule7 == w * 10 > h * 15 /\ ~has_border /\ contrast < 40
    IN  IF x_start >= x_end \/ y_start >= y_end
        THEN Typed("unknown", 0)
        ELSE IF rule1 /\ (has_border \/ edge_density > 15)
        THEN Typed("button", 850)
        ELSE IF rule1 /\ contrast > 40
        THEN Typed("button", 750)
        ELSE IF rule2 /\ look.mean_brightness > 220
        THEN Typed("input", 900)
        ELSE IF rule2 /\ look.mean_brightness > 200 /\ contrast < 30
        THEN Typed("input", 800)
        ELSE IF rule3 /\ score >= 50
        THEN Typed("button", ScoreConfidence(score))
        ELSE IF /\ rule3 /\ w < h * 3 /\ contrast > 30
                /\ (has_border \/ edge_density > 10)
        THEN Typed("button", 750)
        ELSE IF rule3 /\ w < h * 3 /\ contrast > 25
        THEN Typed("button", 650)
        ELSE IF rule4 /\ ~has_border /\ contrast < 35 /\ label_score >= 50
        THEN Typed("label", ScoreConfidence(label_score))
        ELSE IF rule4 /\ w * 10 > h * 25 /\ ~has_border /\ contrast < 35
        THEN Typed("label", 800)
        ELSE IF rule4 /\ w * 10 > h * 18 /\ contrast < 30
        THEN Typed("label", 750)
        ELSE IF rule5 /\ contrast > 50
        THEN Typed("image", 800)
        ELSE IF rule5 /\ area * 10 > total_area
        THEN Typed("image", 700)
        ELSE IF rule6 /\ contrast < 25
        THEN Typed("link", 600)
        ELSE IF is_small /\ has_border
        THEN Typed("button", 600)
        ELSE IF rule7 /\ edge_density < 12
        THEN Typed("label", 650)
        ELSE IF rule7 /\ w > h * 2 /\ contrast < 35
        THEN Typed("label", 700)
        ELSE Typed("unknown", 300)

(***************************************************************************)
(* The learned classifier.  ml is the state of the model file: trained     *)
(* (the file exists and is not empty, scikit-learn importable) and loads   *)
(* (joblib.load succeeds).  look.prediction is what the loaded model       *)
(* answers for the region: a class of its own training vocabulary with its *)
(* probability, or an exception.                                           *)
(***************************************************************************)
MlState(trained, loads) == [trained |-> trained, loads |-> loads]

is_model_trained(ml) == ml.trained

load_model(ml) == ml.trained /\ ml.loads

PredictionFails == [raises |-> "ML prediction failed"]

predict_element_type(ml, look, fallback_type) ==
    IF ~load_model(ml) THEN Typed(fallback_type, 0)
    ELSE IF look.prediction = PredictionFails THEN Typed(fallback_type, 0)
    ELSE look.prediction

(***************************************************************************)
(* generate_test_from_screenshot.  The detected elements are the list      *)
(* detect_elements_improved returned for the reference picture, each with  *)
(* the look of its region.                                                 *)
(***************************************************************************)
\* yolo_to_ui_type
yolo_to_ui_type ==
    [button |-> "button", input |-> "input", text |-> "label",
     label |-> "label", image |-> "image", link |-> "link", icon |-> "image"]

\* str.lower() on the class names the detector can supply here.
lower(name) ==
    CASE name = "Button" -> "button"
      [] name = "TEXT" -> "text"
      [] OTHER -> name

\* The geometry the task derives from a relative bbox.
Shape(bbox, w, h) ==
    LET abs_w == Max(1, bbox.w \div Sub)
        abs_h == Max(1, bbox.h \div Sub)
    IN  [abs_w |-> abs_w, abs_h |-> abs_h, area_px |-> abs_w * abs_h,
         total_pixels |-> w * h]

\* Mutant: the default of elem.get('confidence', 0.5) instead of the
\* detector's confidence.
DetectorType_default_confidence(elem) ==
    IF elem.class_name # NoClass /\ elem.class_name # "unknown"
    THEN Typed(IF lower(elem.class_name) \in DOMAIN yolo_to_ui_type
               THEN yolo_to_ui_type[lower(elem.class_name)]
               ELSE elem.class_name,
               500)
    ELSE Typed("unknown", 0)

\* The type taken from the detector's class, before any classifier.
DetectorType(elem) ==
    IF elem.class_name # NoClass /\ elem.class_name # "unknown"
    THEN Typed(IF lower(elem.class_name) \in DOMAIN yolo_to_ui_type
               THEN yolo_to_ui_type[lower(elem.class_name)]
               ELSE elem.class_name,
               elem.confidence)
    ELSE Typed("unknown", 0)

\* The type and type confidence of one element as they enter the final
\* corrections, with the classifiers that were called for it.
ClassifiedType(elem, look, ml, w, h) ==
    LET given == DetectorType(elem)
        shape == Shape(elem.bbox, w, h)
    IN  IF given.element_type = "unknown" \/ given.confidence < 500
        THEN IF is_model_trained(ml)
             THEN LET ml_result == predict_element_type(ml, look, "unknown")
                  IN  [element_type |->
                           IF ml_result.confidence > given.confidence
                           THEN ml_result.element_type ELSE given.element_type,
                       confidence |->
                           IF ml_result.confidence > given.confidence
                           THEN ml_result.confidence ELSE given.confidence,
                       consulted |-> {"ml"}]
             ELSE LET heuristic == classify_element_type(look, elem.bbox, w, h)
                  IN  [element_type |->
                           IF heuristic.confidence > given.confidence
                           THEN heuristic.element_type ELSE given.element_type,
                       confidence |->
                           IF heuristic.confidence > given.confidence
                           THEN heuristic.confidence ELSE given.confidence,
                       consulted |-> {"heuristic"}]
        ELSE IF /\ given.element_type = "unknown"
                /\ shape.abs_w > shape.abs_h * 3 /\ shape.abs_h < 50
        THEN [element_type |-> "input", confidence |-> 600, consulted |-> {}]
        ELSE [element_type |-> given.element_type,
              confidence |-> given.confidence, consulted |-> {}]

\* "button" that is very wide and low becomes "input".
CorrectWideButton(t, shape) ==
    IF /\ t.element_type = "button"
       /\ shape.abs_w > shape.abs_h * 5 /\ shape.abs_h < 40
    THEN Typed("input", Max(t.confidence, 750))
    ELSE t

\* "label" or "unknown" that is square and small becomes "button".
CorrectSmallSquare(t, shape) ==
    IF /\ t.element_type \in {"label", "unknown"}
       /\ shape.abs_w * 10 >= shape.abs_h * 7
       /\ shape.abs_w * 10 <= shape.abs_h * 13
       /\ shape.area_px * 1000 < shape.total_pixels
    THEN Typed("button", Max(t.confidence, 700))
    ELSE t

\* What is still "unknown" is named after its shape: first "label", and
\* then, inside the same block, "button" whatever the first test gave.
CorrectUnknown(t, shape) ==
    LET wide == /\ shape.abs_w * 10 > shape.abs_h * 15
                /\ shape.area_px * 10000 >= shape.total_pixels * 5
                /\ shape.area_px * 100 <= shape.total_pixels * 15
        as_label == IF wide /\ shape.abs_w > shape.abs_h * 2
                    THEN Typed("label", 650)
                    ELSE IF wide THEN Typed("label", 600)
                    ELSE t
    IN  IF t.element_type # "unknown" THEN t
        ELSE IF /\ shape.abs_w * 10 >= shape.abs_h * 5
                /\ shape.abs_w <= shape.abs_h * 3
                /\ shape.area_px * 10000 >= shape.total_pixels * 5
                /\ shape.area_px * 10 <= shape.total_pixels
        THEN Typed("button", 600)
        ELSE as_label

\* The three corrections in the order of the code.
CorrectedType(t, shape) ==
    CorrectUnknown(CorrectSmallSquare(CorrectWideButton(t, shape), shape), shape)

\* One UIElement row.
UIElement(testcase, name, element_type, bbox, confidence) ==
    [testcase |-> testcase, name |-> name, text |-> "",
     element_type |-> element_type, bbox |-> bbox, confidence |-> confidence]

\* The body of "for elem_data in elements_data" for the element at index i.
StoredElement(tc, elem, look, ml, w, h, i) ==
    LET entering == ClassifiedType(elem, look, ml, w, h)
        final == CorrectedType(Typed(entering.element_type, entering.confidence),
                               Shape(elem.bbox, w, h))
    IN  UIElement(tc.id, <<final.element_type, i>>, final.element_type,
                  elem.bbox, (elem.confidence + final.confidence) \div 2)

\* The rows and the pre-correction types of the whole loop.
StoredElements(tc, detected, looks, ml, w, h) ==
    [i \in 1..Len(detected) |->
        StoredElement(tc, detected[i], looks[i], ml, w, h, i)]

ClassifiedTypes(detected, looks, ml, w, h) ==
    [i \in 1..Len(detected) |-> ClassifiedType(detected[i], looks[i], ml, w, h)]

GenerateResult(tc, returned, classified) ==
    [testcase |-> tc, returned |-> returned, classified |-> classified]

\* generate_test_from_screenshot: the early error returns leave the test
\* case alone; otherwise the old rows are deleted, one row is stored per
\* detected element and the test case becomes 'analyzed'.
\* Mutant: the old elements are deleted before the image is loaded.
generate_test_from_screenshot_deletes_early(tc, detected, looks, ml) ==
    IF ~tc.exists
    THEN GenerateResult(tc, [error |-> "TestCase not found"], <<>>)
    ELSE IF tc.reference_screenshot = "none"
    THEN GenerateResult(tc, [error |-> "No reference screenshot"], <<>>)
    ELSE IF tc.reference_screenshot = "missing file"
    THEN GenerateResult(tc, [error |-> "File not found"], <<>>)
    ELSE IF tc.reference_screenshot = "undecodable"
    THEN GenerateResult([tc EXCEPT !.elements = <<>>],
                        [error |-> "cv2.imread failed"], <<>>)
    ELSE LET w == tc.size[1]
             h == tc.size[2]
         IN  GenerateResult(
                 [tc EXCEPT !.elements = StoredElements(tc, detected, looks, ml, w, h),
                            !.status = "analyzed"],
                 [status |-> "done", elements_saved |-> Len(detected)],
                 ClassifiedTypes(detected, looks, ml, w, h))

generate_test_from_screenshot(tc, detected, looks, ml) ==
    IF ~tc.exists
    THEN GenerateResult(tc, [error |-> "TestCase not found"], <<>>)
    ELSE IF tc.reference_screenshot = "none"
    THEN GenerateResult(tc, [error |-> "No reference screenshot"], <<>>)
    ELSE IF tc.reference_screenshot = "missing file"
    THEN GenerateResult(tc, [error |-> "File not found"], <<>>)
    ELSE IF tc.reference_screenshot = "undecodable"
    THEN GenerateResult(tc, [error |-> "cv2.imread failed"], <<>>)
    ELSE LET w == tc.size[1]
             h == tc.size[2]
         IN  GenerateResult(
                 [tc EXCEPT !.elements = StoredElements(tc, detected, looks, ml, w, h),
                            !.status = "analyzed"],
                 [status |-> "done", elements_saved |-> Len(detected)],
                 ClassifiedTypes(detected, looks, ml, w, h))

(***************************************************************************)
(* The specification of the analysis: one test case, the elements          *)
(* detected on its reference picture, and one run of the task.             *)
(***************************************************************************)
MaxDetected == 2

GenerateSize == <<500, 400>>

\* Pixel boxes <<x, y, w, h>>: tiny, small square, wide and low, button
\* sized, text line, large square, short link.
GenerateBoxes ==
    {<<10, 10, 4, 4>>, <<10, 10, 12, 12>>, <<20, 50, 200, 20>>,
     <<20, 100, 80, 40>>, <<20, 200, 150, 30>>, <<200, 100, 150, 150>>,
     <<300, 20, 60, 12>>}

\* The class names a detected element may carry: none (a heuristic
\* detection), 'unknown', names of the vocabulary in either case, and a
\* name the vocabulary does not hold.
DetectorClasses ==
    {NoClass, "unknown", "button", "text", "icon", "Button", "checkbox"}

DetectorConfidences == {300, 500, 800}

\* What the learned classifier may answer: classes of its training labels,
\* which train_ml_model takes from the stored rows without restricting them.
Predictions ==
    {Typed("button", 900), Typed("slider", 600), Typed("label", 400),
     PredictionFails}

LookProfiles ==
    {<<230, 10, 5, 5>>, <<120, 45, 20, 30>>, <<150, 20, 5, 5>>,
     <<150, 32, 11, 5>>, <<100, 55, 5, 5>>, <<150, 38, 13, 5>>}

Looks ==
    {Look(p[1], p[2], p[3], p[4], prediction) :
        p \in LookProfiles, prediction \in Predictions}

Detected ==
    {Element(b[1] * Sub, b[2] * Sub, b[3] * Sub, b[4] * Sub,
             b[3] * b[4] * PX2, conf, cls) :
        b \in GenerateBoxes, conf \in DetectorConfidences,
        cls \in DetectorClasses}

\* Further elements of a longer list.
MoreDetected ==
    {Element(20 * Sub, 100 * Sub, 80 * Sub, 40 * Sub, 3200 * PX2, 500, NoClass),
     Element(20 * Sub, 200 * Sub, 150 * Sub, 30 * Sub, 4500 * PX2, 800, "label")}

MoreLook == Look(150, 20, 5, 5, Typed("label", 400))

RECURSIVE DetectedLists(_)
DetectedLists(n) ==
    IF n = 0 THEN {<<>>}
    ELSE IF n = 1 THEN {<<e>> : e \in Detected}
    ELSE {Append(l, e) : l \in DetectedLists(n - 1), e \in MoreDetected}

MlStates == {MlState(FALSE, FALSE), MlState(TRUE, TRUE), MlState(TRUE, FALSE)}

OldElement ==
    UIElement(1, <<"unknown", 1>>, "unknown",
              [x |-> 0, y |-> 0, w |-> 60 * Sub, h |-> 60 * Sub], 400)

TestCaseRow(exists, reference_screenshot, elements) ==
    [id |-> 1, exists |-> exists, reference_screenshot |-> reference_screenshot,
     size |-> GenerateSize, status |-> "new", elements |-> elements]

InitGenerate ==
    /\ gt_pc = "queued"
    /\ \E old \in {<<>>, <<OldElement>>} :
          \/ /\ gt_testcase \in
                    {TestCaseRow(FALSE, "none", <<>>),
                     TestCaseRow(TRUE, "none", old),
                     TestCaseRow(TRUE, "missing file", old),
                     TestCaseRow(TRUE, "undecodable", old)}
             /\ gt_detected = <<>>
             /\ gt_look = <<>>
          \/ /\ gt_testcase = TestCaseRow(TRUE, "ok", old)
             /\ \E n \in 0..MaxDetected :
                   /\ gt_detected \in DetectedLists(n)
                   /\ \E look \in Looks :
                         gt_look = [i \in 1..n |-> IF i = 1 THEN look ELSE MoreLook]
    /\ gt_ml \in MlStates
    /\ gt_result = None
    /\ DedupeIdle
    /\ DiffIdle
    /\ DetectIdle
    /\ CompareIdle
    /\ HandlesIdle
    /\ LoadIdle
    /\ GridIdle
    /\ MergeIdle
    /\ RequestIdle
    /\ AnalysesIdle

GenerateTestFromScreenshot ==
    /\ gt_pc = "queued"
    /\ LET result == generate_test_from_screenshot(gt_testcase, gt_detected,
                                                   gt_look, gt_ml)
       IN  /\ gt_testcase' = result.testcase
           /\ gt_result' = [returned |-> result.returned,
                            classified |-> result.classified]
    /\ gt_pc' = "done"
    /\ UNCHANGED <<gt_detected, gt_look, gt_ml>>
    /\ UNCHANGED <<ddVars, daVars, detVars, cmVars, mhVars, liVars, gfVars, msVars, rqVars, anVars>>

NextGenerate == GenerateTestFromScreenshot

SpecGenerate == InitGenerate /\ [][NextGenerate]_vars

ElementTypes == {"button", "input", "label", "image", "link", "unknown"}

GenerateDone == gt_pc = "done" /\ gt_result.returned = [status |-> "done", elements_saved |-> Len(gt_detected)]

\* C11: every element the analysis stores has a type among button, input,
\* label, image, link and unknown and a type confidence between 0 and 1,
\* whatever class the learned detector or the learned classifier supplied.
C11_StoredTypesInVocabulary ==
    GenerateDone =>
        \A i \in 1..Len(gt_testcase.elements) :
            /\ gt_testcase.elements[i].element_type \in ElementTypes
            /\ gt_result.classified[i].confidence \in 0..1000
            /\ gt_testcase.elements[i].confidence \in 0..1000

\* The detector supplied a class other than 'unknown' with confidence >= 0.5.
LabelAccepted(elem) ==
    /\ elem.class_name \notin {NoClass, "unknown"}
    /\ elem.confidence >= 500

\* The fixed vocabulary as the specification lists it; a name it does not
\* hold passes unchanged.
VocabularyLabel(name) ==
    LET l == lower(name)
    IN  IF l \in {"text", "label"} THEN "label"
        ELSE IF l \in {"image", "icon"} THEN "image"
        ELSE IF l \in {"button", "input", "link"} THEN l
        ELSE name

\* C12: a detector label other than 'unknown' with confidence >= 0.5 is
\* mapped through the fixed vocabulary and accepted: no classifier is
\* consulted, and the type entering the corrections is the mapped label with
\* the detector's confidence as type confidence.
C12_DetectorLabelAccepted ==
    GenerateDone =>
        \A i \in 1..Len(gt_detected) :
            LabelAccepted(gt_detected[i]) =>
                /\ gt_result.classified[i].consulted = {}
                /\ gt_result.classified[i].element_type
                       = VocabularyLabel(gt_detected[i].class_name)
                /\ gt_result.classified[i].confidence = gt_detected[i].confidence

C12_Witness ==
    /\ GenerateDone
    /\ gt_ml = MlState(TRUE, TRUE)
    /\ Len(gt_detected) >= 1
    /\ gt_detected[1].class_name = "text"
    /\ gt_detected[1].confidence = 800
    /\ gt_result.classified[1] =
           [element_type |-> "label", confidence |-> 800, consulted |-> {}]

\* C13: with no accepted detector label, a trained model's class is taken
\* when its confidence exceeds the heuristic classifier's confidence for the
\* box and the heuristic result otherwise; the heuristic result is also
\* taken whenever no model is trained.
C13_ModelAgainstHeuristic ==
    GenerateDone =>
        \A i \in 1..Len(gt_detected) :
            ~LabelAccepted(gt_detected[i]) =>
                LET heuristic == classify_element_type(gt_look[i],
                                     gt_detected[i].bbox,
                                     gt_testcase.size[1], gt_testcase.size[2])
                    model == predict_element_type(gt_ml, gt_look[i], "unknown")
                    entering == Typed(gt_result.classified[i].element_type,
                                      gt_result.classified[i].confidence)
                IN  IF is_model_trained(gt_ml) /\ model.confidence > heuristic.confidence
                    THEN entering = model
                    ELSE entering = heuristic

(***************************************************************************)
(* The learned-model handles.  Threads of one process (request threads     *)
(* running tasks synchronously, worker threads) call load_yolo_model and   *)
(* predict_element_type.  load_yolo_model reads the global _yolo_model,    *)
(* builds the model from the file and stores it in three separate steps,   *)
(* with no lock; predict_element_type calls load_model, which keeps        *)
(* nothing.  A handle is [handle, load]: the model built by the load-th    *)
(* load of its file.                                                       *)
(***************************************************************************)
MaxThreads == 2
MaxCalls == 2

Threads == 1..MaxThreads

Handle(handle, load) == [handle |-> handle, load |-> load]

\* The end of a call of thread t that returns value.
Returns(t, value) ==
    /\ mh_got' = [mh_got EXCEPT ![t] = value]
    /\ mh_calls' = [mh_calls EXCEPT ![t] = @ - 1]
    /\ mh_pc' = [mh_pc EXCEPT ![t] = "idle"]

InitHandles ==
    /\ mh_pc = [t \in Threads |-> "idle"]
    /\ mh_files \in [detector : BOOLEAN, classifier : BOOLEAN]
    /\ mh_model = None
    /\ mh_new = [t \in Threads |-> None]
    /\ mh_got = [t \in Threads |-> None]
    /\ mh_loads = [detector |-> 0, classifier |-> 0]
    /\ mh_calls = [t \in Threads |-> MaxCalls]
    /\ DedupeIdle
    /\ DiffIdle
    /\ DetectIdle
    /\ CompareIdle
    /\ GenerateIdle
    /\ LoadIdle
    /\ GridIdle
    /\ MergeIdle
    /\ RequestIdle
    /\ AnalysesIdle

\* load_yolo_model up to "if not os.path.exists(MODEL_PATH)": the cached
\* model is returned if there is one, None if the file is missing.
LoadYoloModelCheck(t) ==
    /\ mh_pc[t] = "idle"
    /\ mh_calls[t] > 0
    /\ IF mh_model # None
       THEN Returns(t, mh_model)
       ELSE IF ~mh_files.detector
       THEN Returns(t, None)
       ELSE /\ mh_pc' = [mh_pc EXCEPT ![t] = "construct"]
            /\ UNCHANGED <<mh_got, mh_calls>>
    /\ UNCHANGED <<mh_files, mh_model, mh_new, mh_loads>>
    /\ UNCHANGED <<ddVars, daVars, detVars, cmVars, gtVars, liVars, gfVars, msVars, rqVars, anVars>>

\* YOLO(MODEL_PATH): the model is built from the file, or the call raises
\* and load_yolo_model returns None.
LoadYoloModelConstruct(t) ==
    /\ mh_pc[t] = "construct"
    /\ \/ /\ mh_loads' = [mh_loads EXCEPT !.detector = @ + 1]
          /\ mh_new' = [mh_new EXCEPT ![t] = Handle("detector", mh_loads.detector + 1)]
          /\ mh_pc' = [mh_pc EXCEPT ![t] = "store"]
          /\ UNCHANGED <<mh_got, mh_calls>>
       \/ /\ Returns(t, None)
          /\ UNCHANGED <<mh_loads, mh_new>>
    /\ UNCHANGED <<mh_files, mh_model>>
    /\ UNCHANGED <<ddVars, daVars, detVars, cmVars, gtVars, liVars, gfVars, msVars, rqVars, anVars>>

\* _yolo_model = <the model just built>; return _yolo_model
LoadYoloModelStore(t) ==
    /\ mh_pc[t] = "store"
    /\ mh_model' = mh_new[t]
    /\ Returns(t, mh_new[t])
    /\ UNCHANGED <<mh_files, mh_new, mh_loads>>
    /\ UNCHANGED <<ddVars, daVars, detVars, cmVars, gtVars, liVars, gfVars, msVars, rqVars, anVars>>

\* predict_element_type: model = load_model(), joblib.load on every call.
PredictElementType(t) ==
    /\ mh_pc[t] = "idle"
    /\ mh_calls[t] > 0
    /\ IF mh_files.classifier
       THEN /\ mh_loads' = [mh_loads EXCEPT !.classifier = @ + 1]
            /\ Returns(t, Handle("classifier", mh_loads.classifier + 1))
       ELSE /\ Returns(t, None)
            /\ UNCHANGED mh_loads
    /\ UNCHANGED <<mh_files, mh_model, mh_new>>
    /\ UNCHANGED <<ddVars, daVars, detVars, cmVars, gtVars, liVars, gfVars, msVars, rqVars, anVars>>

NextHandles ==
    \E t \in Threads :
        \/ LoadYoloModelCheck(t)
        \/ LoadYoloModelConstruct(t)
        \/ LoadYoloModelStore(t)
        \/ PredictElementType(t)

SpecHandles == InitHandles /\ [][NextHandles]_vars

\* C17: each learned-model handle is initialised at most once per process:
\* whatever the threads do, each model is loaded from disk at most once and
\* every call that returns a model returns the one cached handle.
C17_HandlesInitialisedOnce ==
    mh_pc # None =>
        /\ mh_loads.detector <= 1
        /\ mh_loads.classifier <= 1
        /\ \A t \in Threads :
               (mh_got[t] # None /\ mh_got[t].handle = "detector") =>
                   mh_got[t] = mh_model

(***************************************************************************)
(* Calls of load_image.  Inputs: an empty path or the path of a file, and  *)
(* what the decoders make of the file.  cv2.imread raises cv2.error for a  *)
(* picture its size check rejects (more than 2^30 pixels, a side above     *)
(* 2^20) and when the buffer cannot be allocated; it returns None for a    *)
(* missing file and for a format it does not read; it returns the rows it  *)
(* could read of a JPEG file cut short.  Pillow raises for a missing,      *)
(* unknown, oversized or cut-short file.                                   *)
(***************************************************************************)
LoadPaths == {"", "references/login.png", "runs/login.webp"}

LoadPictures ==
    {Image(SsimWindow, SsimWindow, 3, {}),
     Image(SsimWindow, SsimWindow, 3, RectPixels(2, 2, 5, 5)),
     Image(SsimWindow, SsimWindow, 1, RectPixels(2, 2, 5, 5))}

ImreadOutcomes ==
    {Decoded(image) : image \in LoadPictures}
        \cup {DecodedPartly(image) : image \in LoadPictures}
        \cup {NoImage, DecoderRaises}

PillowOutcomes ==
    {Decoded(image) : image \in LoadPictures} \cup {DecoderRaises}

InitLoad ==
    /\ li_pc = "call"
    /\ li_path \in LoadPaths
    /\ li_decoders \in [imread : ImreadOutcomes, pillow : PillowOutcomes]
    /\ li_result = None
    /\ DedupeIdle
    /\ DiffIdle
    /\ DetectIdle
    /\ CompareIdle
    /\ GenerateIdle
    /\ HandlesIdle
    /\ GridIdle
    /\ MergeIdle
    /\ RequestIdle
    /\ AnalysesIdle

LoadImage ==
    /\ li_pc = "call"
    /\ li_result' = load_image(li_path, li_decoders)
    /\ li_pc' = "returned"
    /\ UNCHANGED <<li_path, li_decoders>>
    /\ UNCHANGED <<ddVars, daVars, detVars, cmVars, gtVars, mhVars, gfVars, msVars, rqVars, anVars>>

NextLoad == LoadImage

SpecLoad == InitLoad /\ [][NextLoad]_vars

\* The primary decoder was given the file and gave no image.
PrimaryFails ==
    /\ li_path # ""
    /\ li_decoders.imread.raises \/ li_decoders.imread.image = None

\* C19: load_image never partially succeeds: it returns a fully decoded
\* image or the failure result; the fallback decoder is tried exactly when
\* the primary decoder fails; when both fail, or the path is empty, the
\* failure result is returned; no exception escapes.
C19_LoadImageAllOrNothing ==
    li_pc = "returned" =>
        /\ ~li_result.raised
        /\ li_result.image # None => li_result.complete
        /\ (\E k \in 1..Len(li_result.attempted) : li_result.attempted[k] = "Pillow")
               <=> PrimaryFails
        /\ (li_path = "" \/ (PrimaryFails /\ li_decoders.pillow.raises))
               => li_result.image = None

(***************************************************************************)
(* The grid fallback on its own                                            *)
(*                                                                         *)
(* _grid_fallback_detection(gray, w, h) is called with a grey image of     *)
(* any size the decoder accepts; the sizes below give both grids (4x3 and  *)
(* 5x4), and an image narrower than the grid, whose leftmost cells are     *)
(* empty.  Each cell has std gf_gray.std when it is listed in              *)
(* gf_gray.varied and 0 otherwise.                                         *)
(***************************************************************************)
GridSizes == {<<2, 3>>, <<30, 24>>, <<1300, 24>>, <<30, 1000>>, <<1300, 1000>>}

GridStds == {0, 17, 18, 60}

GridVaried == SUBSET {<<0, 0>>, <<3, 2>>, <<4, 3>>}

InitGrid ==
    /\ gf_pc = "call"
    /\ \E size \in GridSizes, std \in GridStds, varied \in GridVaried :
         gf_gray = [w |-> size[1], h |-> size[2], varied |-> varied, std |-> std]
    /\ gf_result = None
    /\ DedupeIdle
    /\ DiffIdle
    /\ DetectIdle
    /\ CompareIdle
    /\ GenerateIdle
    /\ HandlesIdle
    /\ LoadIdle
    /\ MergeIdle
    /\ RequestIdle
    /\ AnalysesIdle

GridFallbackDetection ==
    /\ gf_pc = "call"
    /\ gf_result' = grid_fallback_detection(gf_gray)
    /\ gf_pc' = "returned"
    /\ UNCHANGED gf_gray
    /\ UNCHANGED <<ddVars, daVars, detVars, cmVars, gtVars, mhVars, liVars, msVars, rqVars, anVars>>

NextGrid == GridFallbackDetection

SpecGrid == InitGrid /\ [][NextGrid]_vars

\* The grid cells of the image that hold pixels and whose std is at least
\* the threshold.
QualifyingCells ==
    LET rows == IF gf_gray.h > 900 THEN 5 ELSE 4
        cols == IF gf_gray.w > 1200 THEN 4 ELSE 3
    IN  {c \in (0..(rows - 1)) \X (0..(cols - 1)) :
            /\ (c[2] * gf_gray.w) \div cols < ((c[2] + 1) * gf_gray.w) \div cols
            /\ (c[1] * gf_gray.h) \div rows < ((c[1] + 1) * gf_gray.h) \div rows
            /\ c \in gf_gray.varied
            /\ gf_gray.std >= 18}

\* A synthetic box: in the upper third of the image, 0.3 wide, 0.15 high.
NearTopThird(elem) ==
    /\ 3 * (elem.bbox.y + elem.bbox.h) <= Sub * gf_gray.h
    /\ elem.bbox.w = ((30 * Sub) \div 100) * gf_gray.w
    /\ elem.bbox.h = ((15 * Sub) \div 100) * gf_gray.h
    /\ elem.confidence = 350

\* C21: _grid_fallback_detection never returns an empty list: when at
\* least one grid cell has std >= 18 it returns one shrunken box per such
\* cell, and when no cell qualifies it returns exactly three synthetic
\* boxes near the top third of the image.
C21_GridFallbackNeverEmpty ==
    gf_pc = "returned" =>
        /\ gf_result # <<>>
        /\ QualifyingCells # {} =>
              /\ Len(gf_result) = Cardinality(QualifyingCells)
              /\ \A i \in 1..Len(gf_result) : gf_result[i].confidence > 350
        /\ QualifyingCells = {} =>
              /\ Len(gf_result) = 3
              /\ \A i \in 1..Len(gf_result) : NearTopThird(gf_result[i])

(***************************************************************************)
(* The final corrections of the analysis                                   *)
(***************************************************************************)
\* The pixel shape of the i-th detected element.
ShapeOf(i) == Shape(gt_detected[i].bbox, gt_testcase.size[1], gt_testcase.size[2])

NearSquareSmall(shape) ==
    /\ shape.abs_w * 10 >= shape.abs_h * 7
    /\ shape.abs_w * 10 <= shape.abs_h * 13
    /\ shape.area_px * 1000 < shape.total_pixels

WideText(shape) ==
    /\ shape.abs_w * 10 > shape.abs_h * 15
    /\ shape.area_px * 10000 >= shape.total_pixels * 5
    /\ shape.area_px * 100 <= shape.total_pixels * 15

\* The type of the i-th element as it enters the last correction.
TypeBeforeLastPass(i) ==
    CorrectSmallSquare(
        CorrectWideButton(Typed(gt_result.classified[i].element_type,
                                gt_result.classified[i].confidence), ShapeOf(i)),
        ShapeOf(i)).element_type

\* C22: after the final corrections no stored element is a 'button' with
\* aspect ratio > 5 and height < 40 px, none is a near-square small 'label'
\* or 'unknown', and every element that was still 'unknown' before the last
\* correction and is wide (aspect ratio > 1.5, relative area within
\* 0.0005..0.15) is stored as 'label'.
C22_FinalCorrections ==
    GenerateDone =>
        \A i \in 1..Len(gt_testcase.elements) :
            LET stored == gt_testcase.elements[i].element_type
                shape == ShapeOf(i)
            IN  /\ ~(/\ stored = "button"
                     /\ shape.abs_w > shape.abs_h * 5
                     /\ shape.abs_h < 40)
                /\ ~(stored \in {"label", "unknown"} /\ NearSquareSmall(shape))
                /\ (TypeBeforeLastPass(i) = "unknown" /\ WideText(shape))
                       => stored = "label"

(***************************************************************************)
(* The loops of _merge_overlapping_elements, one step at a time           *)
(*                                                                         *)
(* MergeCall is the entry of the function up to "changed = True",          *)
(* MergeWhile the head of one execution of the body of "while changed",    *)
(* MergeForI one pass through the head of "for i", MergeForJ one pass      *)
(* through the body of "for j", MergeReturn the exit.  ms_scan holds the   *)
(* locals of the scan under way: i, j, base, skip and result (indices      *)
(* from 1).  The function runs on its own, so a step that is enabled is    *)
(* taken.                                                                  *)
(***************************************************************************)
\* No call needs this many scans; the guard keeps the counter finite.
MaxScans == MaxBoxes + 2

\* Mutant: "skip.add(j)" is forgotten.
SkipAfterMerge_forgotten(skip, j) == skip

\* skip.add(j)
SkipAfterMerge(skip, j) == skip \cup {j}

ScanLocals(i, j, base, skip, result) ==
    [i |-> i, j |-> j, base |-> base, skip |-> skip, result |-> result]

\* The boxes the lists are drawn from: a strip, a column beside it, a box
\* that holds both, a second strip and a taller box.
MergeLoopBoxes ==
    {PixelBox(0, 0, 3, 1), PixelBox(1, 0, 2, 3), PixelBox(0, 0, 6, 4),
     PixelBox(1, 0, 5, 1), PixelBox(0, 0, 3, 4)}

MergeLoopLists ==
    UNION {[1..n -> MergeLoopBoxes] : n \in 0..MaxBoxes}

InitMerge ==
    /\ ms_pc = "call"
    /\ \E boxes \in MergeLoopLists : ms_elements = ElementList(boxes, "descending")
    /\ ms_merged = <<>>
    /\ ms_changed = FALSE
    /\ ms_scan = None
    /\ ms_scans = 0
    /\ ms_merging = 0
    /\ DedupeIdle
    /\ DiffIdle
    /\ DetectIdle
    /\ CompareIdle
    /\ GenerateIdle
    /\ HandlesIdle
    /\ LoadIdle
    /\ GridIdle
    /\ RequestIdle
    /\ AnalysesIdle

MergeCall ==
    /\ ms_pc = "call"
    /\ IF Len(ms_elements) < 2
       THEN /\ ms_merged' = ms_elements
            /\ ms_changed' = FALSE
            /\ ms_pc' = "returned"
       ELSE /\ ms_merged' = ms_elements
            /\ ms_changed' = TRUE
            /\ ms_pc' = "while"
    /\ UNCHANGED <<ms_elements, ms_scan, ms_scans, ms_merging>>
    /\ UNCHANGED <<ddVars, daVars, detVars, cmVars, gtVars, mhVars, liVars, gfVars, rqVars, anVars>>

MergeWhile ==
    /\ ms_pc = "while"
    /\ ms_changed
    /\ ms_scans < MaxScans
    /\ ms_changed' = FALSE
    /\ ms_scan' = ScanLocals(1, 0, None, {}, <<>>)
    /\ ms_scans' = ms_scans + 1
    /\ ms_pc' = "for i"
    /\ UNCHANGED <<ms_elements, ms_merged, ms_merging>>
    /\ UNCHANGED <<ddVars, daVars, detVars, cmVars, gtVars, mhVars, liVars, gfVars, rqVars, anVars>>

MergeForI ==
    /\ ms_pc = "for i"
    /\ IF ms_scan.i > Len(ms_merged)
       THEN /\ ms_merged' = ms_scan.result
            /\ ms_merging' = IF ms_changed THEN ms_merging + 1 ELSE ms_merging
            /\ ms_scan' = None
            /\ ms_pc' = "while"
       ELSE IF ms_scan.i \in ms_scan.skip
       THEN /\ ms_scan' = [ms_scan EXCEPT !.i = @ + 1]
            /\ UNCHANGED <<ms_merged, ms_merging, ms_pc>>
       ELSE /\ ms_scan' = [ms_scan EXCEPT !.base = ms_merged[ms_scan.i],
                                          !.j = ms_scan.i + 1]
            /\ ms_pc' = "for j"
            /\ UNCHANGED <<ms_merged, ms_merging>>
    /\ UNCHANGED <<ms_elements, ms_changed, ms_scans>>
    /\ UNCHANGED <<ddVars, daVars, detVars, cmVars, gtVars, mhVars, liVars, gfVars, rqVars, anVars>>

MergeForJ ==
    /\ ms_pc = "for j"
    /\ IF ms_scan.j > Len(ms_merged)
       THEN /\ ms_scan' = [ms_scan EXCEPT !.result = Append(@, ms_scan.base),
                                          !.i = @ + 1]
            /\ ms_pc' = "for i"
            /\ UNCHANGED ms_changed
       ELSE IF /\ ms_scan.j \notin ms_scan.skip
               /\ ShouldMerge(bbox_abs(ms_scan.base.bbox),
                              bbox_abs(ms_merged[ms_scan.j].bbox))
       THEN /\ ms_scan' = [ms_scan EXCEPT
                              !.base = MergedElement(@, ms_merged[ms_scan.j]),
                              !.skip = SkipAfterMerge(@, ms_scan.j),
                              !.j = @ + 1]
            /\ ms_changed' = TRUE
            /\ UNCHANGED ms_pc
       ELSE /\ ms_scan' = [ms_scan EXCEPT !.j = @ + 1]
            /\ UNCHANGED <<ms_changed, ms_pc>>
    /\ UNCHANGED <<ms_elements, ms_merged, ms_scans, ms_merging>>
    /\ UNCHANGED <<ddVars, daVars, detVars, cmVars, gtVars, mhVars, liVars, gfVars, rqVars, anVars>>

MergeReturn ==
    /\ ms_pc = "while"
    /\ ~ms_changed
    /\ ms_pc' = "returned"
    /\ UNCHANGED <<ms_elements, ms_merged, ms_changed, ms_scan, ms_scans, ms_merging>>
    /\ UNCHANGED <<ddVars, daVars, detVars, cmVars, gtVars, mhVars, liVars, gfVars, rqVars, anVars>>

NextMerge == MergeCall \/ MergeWhile \/ MergeForI \/ MergeForJ \/ MergeReturn

SpecMerge == InitMerge /\ [][NextMerge]_vars /\ WF_vars(NextMerge)

\* C23: _merge_overlapping_elements terminates on every input list: a scan
\* that merges leaves fewer boxes than it found, so there are at most n - 1
\* merging scans, followed by one scan without merges, and the function
\* returns.
C23_MergeTerminates ==
    /\ [][(ms_pc = "for i" /\ ms_pc' = "while" /\ ms_changed)
              => Len(ms_merged') < Len(ms_merged)]_vars
    /\ [](/\ ms_merging <= Max(Len(ms_elements) - 1, 0)
          /\ ms_scans <= ms_merging + 1)
    /\ <>(ms_pc = "returned")

C23_Witness ==
    /\ ms_pc = "returned"
    /\ Len(ms_elements) = 3
    /\ ms_merging = 2
    /\ ms_scans = 3
    /\ Len(ms_merged) = 1

(***************************************************************************)
(* The state the comparison task leaves the run in                         *)
(***************************************************************************)
\* C24: every invocation of compare_reference_with_actual for an existing
\* run ends with the run's status 'finished' or 'failed'; the task never
\* leaves the run 'queued' or 'processing', also when alignment, diffing,
\* element analysis or the saving of defects and metrics raises.
C24_RunEndsFinishedOrFailed ==
    cm_pc = "compared" => cm_run.status \in {"finished", "failed"}

(***************************************************************************)
(* A request that launches the comparison                                  *)
(*                                                                         *)
(* The handlers create_run and compare_run call run_task_with_fallback and *)
(* then write run.status = 'processing' when the returned mode is an       *)
(* asynchronous one; RunViewSet.compare calls .delay and writes            *)
(* 'processing'.  The worker takes the task from the queue at any moment.  *)
(* rq_env holds the three settings, whether the broker accepts the task,   *)
(* whether the result backend answers, and what the task body does with    *)
(* the run: it finishes it, fails it, or raises before it writes.          *)
(***************************************************************************)
Handlers == {"create_run", "compare_run", "RunViewSet.compare"}

TaskOutcomes == {"finished", "failed", "raises"}

Environments ==
    [force_sync : BOOLEAN, fallback_sync : BOOLEAN, wait_timeout : {0, 5},
     broker : {"up", "down"}, backend : {"up", "down"}, task : TaskOutcomes]

\* TaskExecutionResult.is_async: mode.startswith('async')
is_async(mode) == mode \in {"async", "async-completed"}

\* The status of the run after one execution of the task body.
StatusAfterTask(status, outcome) ==
    IF outcome = "raises" THEN status ELSE outcome

WrittenAfterTask(written, outcome) ==
    IF outcome = "raises" THEN written ELSE outcome

InitRequest ==
    /\ rq_pc = "request"
    /\ rq_handler \in Handlers
    /\ rq_env \in Environments
    /\ rq_queue = "none"
    /\ rq_status \in IF rq_handler = "create_run" THEN {"queued"}
                     ELSE {"queued", "finished"}
    /\ rq_written = "none"
    /\ rq_runs = [worker |-> 0, request |-> 0]
    /\ rq_mode = "none"
    /\ DedupeIdle
    /\ DiffIdle
    /\ DetectIdle
    /\ CompareIdle
    /\ GenerateIdle
    /\ HandlesIdle
    /\ LoadIdle
    /\ GridIdle
    /\ MergeIdle
    /\ AnalysesIdle

\* _run_sync inside the request: the body runs in the request's thread; an
\* exception of the body leaves run_task_with_fallback.
RunSyncTo(mode) ==
    /\ rq_runs' = [rq_runs EXCEPT !.request = @ + 1]
    /\ rq_status' = StatusAfterTask(rq_status, rq_env.task)
    /\ rq_written' = WrittenAfterTask(rq_written, rq_env.task)
    /\ IF rq_env.task = "raises"
       THEN rq_mode' = "raised" /\ rq_pc' = "responded"
       ELSE rq_mode' = mode /\ rq_pc' = "returned"

\* run_task_with_fallback up to the end of apply_async; RunViewSet.compare
\* up to the end of .delay.
Launch ==
    /\ rq_pc = "request"
    /\ IF rq_handler = "RunViewSet.compare"
       THEN /\ IF rq_env.broker = "up"
               THEN rq_queue' = "queued" /\ rq_mode' = "async" /\ rq_pc' = "returned"
               ELSE rq_queue' = rq_queue /\ rq_mode' = "raised" /\ rq_pc' = "responded"
            /\ UNCHANGED <<rq_status, rq_written, rq_runs>>
       ELSE IF rq_env.force_sync
       THEN RunSyncTo("sync") /\ UNCHANGED rq_queue
       ELSE /\ IF rq_env.broker = "up"
               THEN /\ rq_queue' = "queued"
                    /\ IF rq_env.wait_timeout > 0
                       THEN rq_mode' = rq_mode /\ rq_pc' = "waiting"
                       ELSE rq_mode' = "async" /\ rq_pc' = "returned"
               ELSE rq_queue' = rq_queue /\ rq_mode' = rq_mode /\ rq_pc' = "fallback"
            /\ UNCHANGED <<rq_status, rq_written, rq_runs>>
    /\ UNCHANGED <<rq_handler, rq_env>>
    /\ UNCHANGED <<ddVars, daVars, detVars, cmVars, gtVars, mhVars, liVars, gfVars, msVars, anVars>>

\* async_result.get(timeout=wait_timeout): the value of a task that is
\* done, the exception of a task that raised, TimeoutError for a task that
\* is not done, or an exception of the result backend.
GetResult ==
    /\ rq_pc = "waiting"
    /\ \/ /\ rq_env.backend = "down"
          /\ rq_mode' = rq_mode /\ rq_pc' = "fallback"
       \/ /\ rq_env.backend = "up"
          /\ rq_queue = "done"
          /\ IF rq_env.task = "raises"
             THEN rq_mode' = rq_mode /\ rq_pc' = "fallback"
             ELSE rq_mode' = "async-completed" /\ rq_pc' = "returned"
       \/ /\ rq_env.backend = "up"
          /\ rq_queue = "queued"
          /\ rq_mode' = "async" /\ rq_pc' = "returned"
    /\ UNCHANGED <<rq_handler, rq_env, rq_queue, rq_status, rq_written, rq_runs>>
    /\ UNCHANGED <<ddVars, daVars, detVars, cmVars, gtVars, mhVars, liVars, gfVars, msVars, anVars>>

\* except Exception: raise again, or run the task in the request.
Fallback ==
    /\ rq_pc = "fallback"
    /\ IF ~rq_env.fallback_sync
       THEN /\ rq_mode' = "raised" /\ rq_pc' = "responded"
            /\ UNCHANGED <<rq_status, rq_written, rq_runs>>
       ELSE RunSyncTo("sync-fallback")
    /\ UNCHANGED <<rq_handler, rq_env, rq_queue>>
    /\ UNCHANGED <<ddVars, daVars, detVars, cmVars, gtVars, mhVars, liVars, gfVars, msVars, anVars>>

\* The handler after the launch: run.status = 'processing' and
\* run.save(update_fields=['status']) for an asynchronous mode.
Respond ==
    /\ rq_pc = "returned"
    /\ rq_status' = IF is_async(rq_mode) THEN "processing" ELSE rq_status
    /\ rq_pc' = "responded"
    /\ UNCHANGED <<rq_handler, rq_env, rq_queue, rq_written, rq_runs, rq_mode>>
    /\ UNCHANGED <<ddVars, daVars, detVars, cmVars, gtVars, mhVars, liVars, gfVars, msVars, anVars>>

\* The worker runs the queued task.
WorkerRuns ==
    /\ rq_queue = "queued"
    /\ rq_queue' = "done"
    /\ rq_runs' = [rq_runs EXCEPT !.worker = @ + 1]
    /\ rq_status' = StatusAfterTask(rq_status, rq_env.task)
    /\ rq_written' = WrittenAfterTask(rq_written, rq_env.task)
    /\ UNCHANGED <<rq_pc, rq_handler, rq_env, rq_mode>>
    /\ UNCHANGED <<ddVars, daVars, detVars, cmVars, gtVars, mhVars, liVars, gfVars, msVars, anVars>>

NextRequest == Launch \/ GetResult \/ Fallback \/ Respond \/ WorkerRuns

SpecRequest == InitRequest /\ [][NextRequest]_vars

\* The request and the task it launched have both completed.
BothCompleted == rq_pc = "responded" /\ rq_queue # "queued"

\* C25: once the task has written 'finished' or 'failed' for the run, the
\* request that launched it does not overwrite it with 'processing': in
\* every interleaving of handler and task, and in the 'async-completed'
\* mode, after both have completed the status is the task's terminal status.
C25_TerminalStatusKept ==
    (BothCompleted /\ rq_written # "none") => rq_status = rq_written

\* C26: within one call of run_task_with_fallback the task body runs at most
\* once: a task that was enqueued is never run in the request as well,
\* whatever is raised while enqueuing or while waiting for the result.
C26_TaskBodyAtMostOnce ==
    /\ rq_queue # "none" => rq_runs.request = 0
    /\ rq_runs.worker + rq_runs.request <= 1

(***************************************************************************)
(* Class labels through merging                                            *)
(***************************************************************************)
\* The elements the learned detector gave in its passes over det_img.
DetectorElements ==
    LET first == detect_elements_yolo(det_img, det_yolo.first)
        second == IF Len(first) < MIN_ELEMENTS_TARGET
                  THEN detect_elements_yolo(det_img, det_yolo.second)
                  ELSE <<>>
    IN  {first[i] : i \in 1..Len(first)} \cup {second[i] : i \in 1..Len(second)}

Covers(outer, inner) ==
    /\ outer.x <= inner.x
    /\ outer.y <= inner.y
    /\ outer.x + outer.w >= inner.x + inner.w
    /\ outer.y + outer.h >= inner.y + inner.h

\* Only the learned detector contributes to the returned list.
DetectorOnly ==
    /\ det_pc = "returned"
    /\ ~det_result.raised
    /\ det_opts.use_yolo
    /\ det_yolo.available
    /\ ~det_opts.fallback_to_heuristic

\* C29: merging preserves detector class labels: an element made by
\* uniting detector boxes keeps the class_name of its higher-confidence
\* constituent, so every detector-originated element that
\* detect_elements_improved returns carries a class_name for the
\* classifier's precedence step.
C29_MergeKeepsDetectorClass ==
    DetectorOnly =>
        \A i \in 1..Len(det_result.elements) :
            LET elem == det_result.elements[i]
            IN  /\ elem.class_name \notin {NoClass, "unknown"}
                /\ \E d \in DetectorElements :
                       /\ Covers(elem.bbox, d.bbox)
                       /\ d.confidence = elem.confidence
                       /\ d.class_name = elem.class_name

(***************************************************************************)
(* Two analyses of the same test case at once                              *)
(*                                                                         *)
(* generate_test_from_screenshot runs in a worker; two workers may run it  *)
(* for the same test case.  The task uses no transaction and no lock, so   *)
(* each of its database statements is a step of its own: the delete of     *)
(* the old rows, every UIElement.objects.create, and the save of the       *)
(* status.  Both invocations read the same screenshot and detect the same  *)
(* an_found elements; a row is [by, no]: the invocation that created it    *)
(* (0 for a row stored before) and its number in that invocation's output. *)
(***************************************************************************)
Invocations == {1, 2}

MaxFound == 2

Row(by, no) == [by |-> by, no |-> no]

\* The rows one invocation stores.
OutputOf(w) == {Row(w, k) : k \in 1..an_found}

InitAnalyses ==
    /\ an_pc = [w \in Invocations |-> "queued"]
    /\ an_found \in 0..MaxFound
    /\ an_rows \in {{}, {Row(0, 1)}}
    /\ an_status \in {"new", "analyzed"}
    /\ an_saved = [w \in Invocations |-> 0]
    /\ DedupeIdle
    /\ DiffIdle
    /\ DetectIdle
    /\ CompareIdle
    /\ GenerateIdle
    /\ HandlesIdle
    /\ LoadIdle
    /\ GridIdle
    /\ MergeIdle
    /\ RequestIdle

\* From TestCase.objects.get to the return of detect_elements_improved.
Detect(w) ==
    /\ an_pc[w] = "queued"
    /\ an_pc' = [an_pc EXCEPT ![w] = "detected"]
    /\ UNCHANGED <<an_found, an_rows, an_status, an_saved>>
    /\ UNCHANGED <<ddVars, daVars, detVars, cmVars, gtVars, mhVars, liVars, gfVars, msVars, rqVars>>

\* tc.elements.all().delete()
DeleteOld(w) ==
    /\ an_pc[w] = "detected"
    /\ an_rows' = {}
    /\ an_pc' = [an_pc EXCEPT ![w] = "creating"]
    /\ UNCHANGED <<an_found, an_status, an_saved>>
    /\ UNCHANGED <<ddVars, daVars, detVars, cmVars, gtVars, mhVars, liVars, gfVars, msVars, rqVars>>

\* One pass of "for elem_data in elements_data": UIElement.objects.create.
CreateElement(w) ==
    /\ an_pc[w] = "creating"
    /\ an_saved[w] < an_found
    /\ an_rows' = an_rows \cup {Row(w, an_saved[w] + 1)}
    /\ an_saved' = [an_saved EXCEPT ![w] = @ + 1]
    /\ UNCHANGED <<an_pc, an_found, an_status>>
    /\ UNCHANGED <<ddVars, daVars, detVars, cmVars, gtVars, mhVars, liVars, gfVars, msVars, rqVars>>

\* tc.status = 'analyzed'; tc.save(update_fields=['status'])
SaveStatus(w) ==
    /\ an_pc[w] = "creating"
    /\ an_saved[w] = an_found
    /\ an_status' = "analyzed"
    /\ an_pc' = [an_pc EXCEPT ![w] = "done"]
    /\ UNCHANGED <<an_found, an_rows, an_saved>>
    /\ UNCHANGED <<ddVars, daVars, detVars, cmVars, gtVars, mhVars, liVars, gfVars, msVars, rqVars>>

NextAnalyses ==
    \E w \in Invocations :
        Detect(w) \/ DeleteOld(w) \/ CreateElement(w) \/ SaveStatus(w)

SpecAnalyses == InitAnalyses /\ [][NextAnalyses]_vars

\* C27: when two invocations of generate_test_from_screenshot for the same
\* test case run concurrently, after both complete the stored elements are
\* the output of exactly one invocation (no elements of both, none twice)
\* and the status is 'analyzed'.
C27_ConcurrentAnalysesOneOutput ==
    (\A w \in Invocations : an_pc[w] = "done") =>
        /\ \E w \in Invocations : an_rows = OutputOf(w)
        /\ an_status = "analyzed"

(***************************************************************************)
(* The status of an element against the number of changed pixels           *)
(***************************************************************************)
Severity(status) ==
    CASE status = "ok" -> 0
      [] status = "shifted" -> 1
      [] status = "missing" -> 2

\* The status the i-th element would get with d changed pixels in its
\* padded region, everything else as in the call.
StatusWith(i, d) ==
    ElementStatus(d, InfoOf(i).roi_area, da_args, BoxOf(i))

\* C28: for a fixed element, mask size, shift tolerance and thresholds with
\* min_pixels >= 0, the conditions for 'missing' imply those for 'shifted'
\* (effective_missing >= effective_changed + 0.2, and the pixel floor of
\* 'missing' is at least that of 'shifted'); hence more changed pixels in
\* the element's padded region never improve its status.
C28_MorePixelsNeverImprove ==
    (Returned /\ da_args.min_pixels >= 0) =>
        \A i \in StoredIds :
            /\ effective_missing(da_args) >= effective_changed(da_args) + 20
            /\ min_pixels_missing(da_args, BoxOf(i))
                   >= min_pixels_shifted(da_args, BoxOf(i))
            /\ \A d \in 0..InfoOf(i).roi_area :
                   /\ d <= InfoOf(i).diff_pixels
                          => Severity(StatusWith(i, d)) <= Severity(InfoOf(i).status)
                   /\ d >= InfoOf(i).diff_pixels
                          => Severity(StatusWith(i, d)) >= Severity(InfoOf(i).status)

C28_Witness ==
    /\ Returned
    /\ da_args.min_pixels >= 0
    /\ \E i \in StoredIds :
           /\ InfoOf(i).status = "shifted"
           /\ InfoOf(i).diff_pixels < InfoOf(i).roi_area
           /\ StatusWith(i, 0) = "ok"
           /\ StatusWith(i, InfoOf(i).roi_area) = "missing"

(***************************************************************************)
(* The error returns of generate_test_from_screenshot                      *)
(***************************************************************************)
ErrorReturned(result) == "error" \in DOMAIN result.returned

\* C30: on every error return of generate_test_from_screenshot (test case
\* not found, no reference screenshot, file absent, decode failure) the
\* stored elements and the status of the test case are left unchanged; the
\* previously stored elements are deleted only after the image was decoded
\* and detection returned, that is only in a call that returns 'done'.
C30_ErrorReturnsChangeNothing ==
    [][(gt_pc = "queued" /\ gt_pc' = "done") =>
           /\ ErrorReturned(gt_result') => gt_testcase' = gt_testcase
           /\ (\/ gt_testcase'.elements # gt_testcase.elements
               \/ gt_testcase'.status # gt_testcase.status)
                  => /\ gt_testcase.reference_screenshot = "ok"
                     /\ ~ErrorReturned(gt_result')]_vars

C30_Witness ==
    /\ gt_pc = "done"
    /\ ErrorReturned(gt_result)
    /\ gt_result.returned.error = "cv2.imread failed"
    /\ gt_testcase.elements = <<OldElement>>
    /\ gt_testcase.status = "new"

====
